---- MODULE Spec2Model ----
(***************************************************************************)
(* report-killer: the document handler (src/report_killer/docx_handler.py) *)
(* and the loop of ReportAgent.process_document that drives it             *)
(* (src/report_killer/agent.py).                                           *)
(*                                                                         *)
(* The document body is a sequence of body-level elements, paragraphs and  *)
(* tables.  python-docx's doc.paragraphs is the subsequence of paragraphs: *)
(* every index the handler uses (para_index, current_index) is an index    *)
(* into that subsequence, 0-based as in the source.  A text is a sequence  *)
(* of one-character strings, so that str.split and str.strip are computed. *)
(***************************************************************************)
EXTENDS Integers, Sequences, FiniteSets, TLC

VARIABLES
    body,       \* DocxHandler.doc: the body-level elements, in document order
    points,     \* DocxHandler.insertion_points: the registered InsertionPoints
    located,    \* history: the para_index of each point when it was located
    pc,         \* where the caller is
    cur,        \* process_document: number of points the loop is done with
    last,       \* history: the most recent handler call, with the state before it
    status,     \* process_document: what get_completion_status returned
    result,     \* process_document: the value returned, "none" before it returns
    console,    \* the warnings and failures printed so far
    reply,      \* the most recent reply of the language model
    call,       \* the external call the run is waiting for
    outcomes,   \* what the collaborators returned to the parser so far
    generated,  \* what _generate_content_for_point returned last
    chart_counter,  \* ChartGenerator.chart_counter
    test_mode,  \* ReportAgent.test_mode
    disk,       \* the files: the charts in the workspace, what was saved
    document    \* the number of the document the agent is processing

vars ==
    <<body, points, located, pc, cur, last, status, result, console, reply,
      call, outcomes, generated, chart_counter, test_mode, disk, document>>

--------------------------------------------------------------------------
(* Bounds *)

\* most InsertionPoints the locator returns in one run
MaxPoints == 3
\* most characters of a code body handed to insert_code_block directly
MaxCodeLen == 3
\* most parts (paragraphs, headings, code blocks) of a generated text
MaxParts == 2
\* most data rows of a table handed to insert_table, and most cells of one
MaxRows == 2
MaxCells == 3
\* most documents one workspace sees processed, one after the other
MaxDocuments == 2
\* most renders asked of one chart generator
MaxCharts == 4

--------------------------------------------------------------------------
(* Texts *)

NL == "\n"

\* the characters str.strip() removes, among those the model uses
Whitespace == {" ", "\t", NL}

\* the characters code bodies are built from
CodeChars == {"a", " ", NL}

RECURSIVE SeqsUpTo(_, _)
SeqsUpTo(S, n) ==
    IF n = 0 THEN {<< >>}
    ELSE LET shorter == SeqsUpTo(S, n - 1)
         IN  shorter \cup {Append(s, c) : s \in shorter, c \in S}

\* str.split('\n'): the pieces between the newlines, empty pieces kept
RECURSIVE Split(_)
Split(s) ==
    IF \A j \in 1..Len(s) : s[j] # NL THEN <<s>>
    ELSE LET j == CHOOSE x \in 1..Len(s) :
                      s[x] = NL /\ \A y \in 1..(x - 1) : s[y] # NL
         IN  <<SubSeq(s, 1, j - 1)>> \o Split(SubSeq(s, j + 1, Len(s)))

\* the lines joined by newlines: what str.split('\n') undoes
RECURSIVE JoinLines(_)
JoinLines(lines) ==
    IF Len(lines) = 1 THEN lines[1]
    ELSE lines[1] \o <<NL>> \o JoinLines(Tail(lines))

\* truth value of line.strip(): some character is not whitespace
StripNonEmpty(line) == \E j \in 1..Len(line) : line[j] \notin Whitespace

\* `line if line.strip() else " "`
CodeLineText(line) == IF StripNonEmpty(line) THEN line ELSE <<" ">>

--------------------------------------------------------------------------
(* Body elements *)

\* a body paragraph holding text, which Paragraph.text reads back as it was
\* given; id > 0 names a paragraph of the loaded document, id = 0 one the
\* handler inserted
Para(text, id) ==
    [kind |-> "p", text |-> text, pic |-> "", cells |-> << >>, id |-> id]

\* the paragraph insert_image adds, before and after run.add_picture
PicturePara(path) ==
    [kind |-> "p", text |-> << >>, pic |-> path, cells |-> << >>, id |-> 0]

\* a body table with the given rows of cell texts
Table(cells, id) ==
    [kind |-> "tbl", text |-> << >>, pic |-> "", cells |-> cells, id |-> id]

IsPara(e) == e.kind = "p"

\* doc.paragraphs: the body's paragraphs, tables left out
Paragraphs(b) == SelectSeq(b, IsPara)

\* the position in the body of doc.paragraphs[i], 0 <= i < len
ParaPos(b, i) ==
    LET P == {j \in 1..Len(b) : IsPara(b[j])}
    IN  CHOOSE j \in P : Cardinality({m \in P : m < j}) = i

\* element._element.addnext(e): e becomes the body element right after
\* position pos
AddNext(b, pos, e) == SubSeq(b, 1, pos) \o <<e>> \o SubSeq(b, pos + 1, Len(b))

--------------------------------------------------------------------------
(* DocxHandler: the insertion primitives.  Each returns the new body, the  *)
(* count the source returns (n) and whether the call returned (ok) or      *)
(* raised; a call that raises keeps what it had already put in the body.   *)

\* the insert position shared by the primitives: `para_index >= len(...)`
\* appends at the end of the body, otherwise the new element is moved right
\* after doc.paragraphs[para_index] (a negative index counts from the end,
\* below -len it raises IndexError)
PlaceAfter(b, para_index, e) ==
    LET n == Len(Paragraphs(b))
    IN  IF para_index >= n THEN [body |-> Append(b, e), ok |-> TRUE]
        ELSE IF para_index < -n THEN [body |-> b, ok |-> FALSE]
        ELSE LET i == IF para_index < 0 THEN para_index + n ELSE para_index
             IN  [body |-> AddNext(b, ParaPos(b, i), e), ok |-> TRUE]

\* a plausible slip: the new paragraph is left where insert_paragraph_before
\* put it, the addnext move forgotten
insert_paragraph_after_unmoved(b, para_index, text) ==
    LET n == Len(Paragraphs(b))
    IN  IF para_index >= n THEN [body |-> Append(b, Para(text, 0)), ok |-> TRUE]
        ELSE IF para_index < -n THEN [body |-> b, ok |-> FALSE]
        ELSE LET i == IF para_index < 0 THEN para_index + n ELSE para_index
             IN  [body |-> AddNext(b, ParaPos(b, i) - 1, Para(text, 0)),
                  ok |-> TRUE]

insert_paragraph_after(b, para_index, text) ==
    PlaceAfter(b, para_index, Para(text, 0))

RECURSIVE CodeLines(_, _, _, _)
CodeLines(b, para_index, code_lines, inserted) ==
    IF inserted = Len(code_lines) THEN [body |-> b, n |-> inserted, ok |-> TRUE]
    ELSE LET r == insert_paragraph_after(b, para_index + inserted,
                                         CodeLineText(code_lines[inserted + 1]))
         IN  IF r.ok THEN CodeLines(r.body, para_index, code_lines, inserted + 1)
             ELSE [body |-> r.body, n |-> inserted, ok |-> FALSE]

\* a plausible slip: the language label of the earlier handler is inserted
\* ahead of the code lines and counted
insert_code_block_labelled(b, para_index, code, language) ==
    LET r == insert_paragraph_after(b, para_index, language)
        c == CodeLines(r.body, para_index + 1, Split(code), 0)
    IN  [body |-> c.body, n |-> c.n + 1, ok |-> r.ok /\ c.ok]

insert_code_block(b, para_index, code, language) ==
    CodeLines(b, para_index, Split(code), 0)

\* the cell texts insert_table has written when it returns or raises: the
\* header row, then each data row up to the first one wider than the table
\* (table.rows[r].cells[col_idx] raises IndexError there); other cells ""
TableCells(data, headers, rows, cols) ==
    LET start == IF headers # << >> THEN 1 ELSE 0
        wide  == {d \in 1..Len(data) : Len(data[d]) > cols}
        stop  == IF wide = {} THEN Len(data)
                 ELSE CHOOSE d \in wide : \A x \in wide : d <= x
    IN  [r \in 1..rows |->
            [c \in 1..cols |->
                IF r <= start THEN headers[c]
                ELSE IF r - start <= stop /\ c <= Len(data[r - start])
                     THEN data[r - start][c]
                     ELSE ""]]

insert_table(b, para_index, data, headers) ==
    LET rows == Len(data) + (IF headers # << >> THEN 1 ELSE 0)
        cols == IF headers # << >> THEN Len(headers)
                ELSE IF data # << >> THEN Len(data[1]) ELSE 0
    IN  IF rows = 0 \/ cols = 0 THEN [body |-> b, n |-> 0, ok |-> TRUE]
        ELSE LET r == PlaceAfter(b, para_index,
                                 Table(TableCells(data, headers, rows, cols), 0))
             IN  IF ~r.ok THEN [body |-> r.body, n |-> 0, ok |-> FALSE]
                 ELSE [body |-> r.body, n |-> 1,
                       ok |-> \A d \in 1..Len(data) : Len(data[d]) <= cols]

\* generate_chart: the file of chart number n
ChartPath(n) == "chart_" \o ToString(n) \o ".png"

\* the files an image path may name: a readable image (the charts the
\* generator has written are such), a file that is no image, no file
FileState(path) ==
    CASE path \in {ChartPath(n) : n \in 1..(MaxPoints * MaxParts)} -> "image"
      [] path = "broken.png"  -> "garbage"
      [] OTHER                -> "absent"

\* a plausible slip: the existence test dropped
PathExists_always(path) == TRUE

\* Path(image_path).exists()
PathExists(path) == FileState(path) # "absent"

\* the empty paragraph is in the body before run.add_picture reads the file
insert_image(b, para_index, image_path, width_inches) ==
    LET readable == FileState(image_path) = "image"
        r == PlaceAfter(b, para_index,
                        PicturePara(IF readable THEN image_path ELSE ""))
    IN  [body |-> r.body, n |-> IF r.ok /\ readable THEN 1 ELSE 0,
         ok |-> r.ok /\ readable]

--------------------------------------------------------------------------
(* ContentBlocks and InsertionPoints *)

\* A content item.  The source's item['data'] is a text for 'text' and
\* 'code', a list of rows for 'table' and a path for 'image': the model
\* keeps the three in data, rows and path.  headers = << >> stands for both
\* None and [], which `if headers` does not tell apart.
TextBlock(text) ==
    [type |-> "text", data |-> text, language |-> << >>, rows |-> << >>,
     headers |-> << >>, path |-> "", width |-> 5]
CodeBlock(code, language) ==
    [type |-> "code", data |-> code, language |-> language, rows |-> << >>,
     headers |-> << >>, path |-> "", width |-> 5]
TableBlock(rows, headers) ==
    [type |-> "table", data |-> << >>, language |-> << >>, rows |-> rows,
     headers |-> headers, path |-> "", width |-> 5]
ImageBlock(path) ==
    [type |-> "image", data |-> << >>, language |-> << >>, rows |-> << >>,
     headers |-> << >>, path |-> path, width |-> 5]

\* InsertionPoint.__init__ with the two contexts left at their default;
\* a context is the list of the lines "\n".join puts together
InsertionPoint(para_index, description) ==
    [para_index |-> para_index, description |-> description,
     context_before |-> << >>, context_after |-> << >>, filled |-> FALSE,
     content |-> << >>, actual_insert_index |-> para_index]

\* get_context_around_index: the paragraphs taken before and after
ContextSize == 5

\* the texts of doc.paragraphs[lo] .. doc.paragraphs[hi] that are not empty,
\* in that order; a negative index counts from the end, as a Python list's
RECURSIVE ParagraphTexts(_, _, _)
ParagraphTexts(b, lo, hi) ==
    IF lo > hi THEN << >>
    ELSE LET len  == Len(Paragraphs(b))
             text == Paragraphs(b)[(IF lo < 0 THEN len + lo ELSE lo) + 1].text
         IN  (IF text # << >> THEN <<text>> ELSE << >>)
                \o ParagraphTexts(b, lo + 1, hi)

\* DocxHandler.get_context_around_index: ok tells whether it returns; the
\* loop over the paragraphs after para_index reads doc.paragraphs[i]
\* unguarded, an IndexError for i < -len(doc.paragraphs); the loop over
\* the paragraphs before it skips every i >= len(doc.paragraphs)
get_context_around_index(b, para_index) ==
    LET len   == Len(Paragraphs(b))
        stop  == IF len < para_index + ContextSize + 1 THEN len
                 ELSE para_index + ContextSize + 1
        start == IF para_index - ContextSize < 0 THEN 0
                 ELSE para_index - ContextSize
        last_before == IF para_index - 1 < len - 1 THEN para_index - 1
                       ELSE len - 1
        ok    == \A i \in (para_index + 1)..(stop - 1) : i >= 0 - len
    IN  [ok |-> ok,
         before |-> ParagraphTexts(b, start, last_before),
         after |-> IF ok THEN ParagraphTexts(b, para_index + 1, stop - 1)
                   ELSE << >>]

\* a point as the locator makes it: InsertionPoint(para_index, description,
\* before, after) with the context of the document at that moment
LocatedPoint(b, para_index, description) ==
    LET context == get_context_around_index(b, para_index)
    IN  [InsertionPoint(para_index, description)
            EXCEPT !.context_before = context.before,
                   !.context_after = context.after]

\* the loop over the content items; st is the loop's state, st.ok = FALSE
\* once an item has raised
RECURSIVE ApplyItems(_, _, _)
ApplyItems(st, content, j) ==
    IF j > Len(content) \/ ~st.ok THEN st
    ELSE LET item == content[j]
             r == CASE item.type = "text" ->
                         LET x == insert_paragraph_after(st.body, st.current_index,
                                                         item.data)
                         IN  [body |-> x.body, n |-> 1, ok |-> x.ok]
                    [] item.type = "code" ->
                         insert_code_block(st.body, st.current_index, item.data,
                                           item.language)
                    [] item.type = "table" ->
                         insert_table(st.body, st.current_index, item.rows,
                                      item.headers)
                    [] item.type = "image" /\ PathExists(item.path) ->
                         insert_image(st.body, st.current_index, item.path,
                                      item.width)
                    [] OTHER -> [body |-> st.body, n |-> 0, ok |-> TRUE]
         IN  ApplyItems([body |-> r.body,
                         current_index |-> st.current_index + r.n,
                         inserted_total |-> st.inserted_total + r.n,
                         ok |-> r.ok],
                        content, j + 1)

\* a slip: the flag of the other points reset when one is filled
MarkFilled_exclusive(pts, k, content, current_index) ==
    [j \in 1..Len(pts) |->
        IF j = k
        THEN [pts[j] EXCEPT !.filled = TRUE, !.content = content,
                            !.actual_insert_index = current_index]
        ELSE [pts[j] EXCEPT !.filled = FALSE]]

\* point.filled = True; point.content = content;
\* point.actual_insert_index = current_index
MarkFilled(pts, k, content, current_index) ==
    [pts EXCEPT ![k] = [@ EXCEPT !.filled = TRUE, !.content = content,
                                 !.actual_insert_index = current_index]]

\* a plausible slip: the re-basing loop left out, as in the earlier handler
Rebase_none(pts, k, inserted_total) == pts

\* a plausible slip: `>=` for `>`, which also moves a point sharing the anchor
Rebase_inclusive(pts, k, inserted_total) ==
    [j \in 1..Len(pts) |->
        IF pts[j].para_index >= pts[k].para_index /\ ~pts[j].filled
        THEN [pts[j] EXCEPT !.para_index = @ + inserted_total]
        ELSE pts[j]]

\* a plausible slip: `and not other_point.filled` left out, which also moves
\* the points filled earlier
Rebase_filled(pts, k, inserted_total) ==
    [j \in 1..Len(pts) |->
        IF pts[j].para_index > pts[k].para_index
        THEN [pts[j] EXCEPT !.para_index = @ + inserted_total]
        ELSE pts[j]]

\* "Update subsequent insertion points' indices"
Rebase(pts, k, inserted_total) ==
    [j \in 1..Len(pts) |->
        IF pts[j].para_index > pts[k].para_index /\ ~pts[j].filled
        THEN [pts[j] EXCEPT !.para_index = @ + inserted_total]
        ELSE pts[j]]

\* a slip: the anchor taken from actual_insert_index, which the re-basing
\* of the earlier fills does not move
insert_content_at_point_stale(b, pts, k, content) ==
    LET old == [pts EXCEPT ![k].para_index = pts[k].actual_insert_index]
        st  == ApplyItems([body |-> b, current_index |-> old[k].para_index,
                           inserted_total |-> 0, ok |-> TRUE], content, 1)
    IN  IF ~st.ok
        THEN [body |-> st.body, points |-> pts, ok |-> FALSE,
              inserted_total |-> st.inserted_total]
        ELSE [body |-> st.body,
              points |-> Rebase(MarkFilled(old, k, content, st.current_index),
                                k, st.inserted_total),
              ok |-> TRUE, inserted_total |-> st.inserted_total]

\* the whole method on point number k (1-based in the list); when an item
\* raises, the exception leaves the method before the point is marked
insert_content_at_point(b, pts, k, content) ==
    LET st == ApplyItems([body |-> b, current_index |-> pts[k].para_index,
                          inserted_total |-> 0, ok |-> TRUE], content, 1)
    IN  IF ~st.ok
        THEN [body |-> st.body, points |-> pts, ok |-> FALSE,
              inserted_total |-> st.inserted_total]
        ELSE [body |-> st.body,
              points |-> Rebase(MarkFilled(pts, k, content, st.current_index),
                                k, st.inserted_total),
              ok |-> TRUE, inserted_total |-> st.inserted_total]

\* a slip: every registered point counted as filled
get_completion_status_all_filled(pts) ==
    [total |-> Len(pts), filled |-> Len(pts), remaining |-> 0,
     completion_rate |-> IF Len(pts) > 0 THEN [num |-> Len(pts), den |-> Len(pts)]
                         ELSE [num |-> 0, den |-> 1],
     points |-> pts]

\* DocxHandler.get_completion_status; completion_rate, a float in the
\* source, is the fraction num/den
get_completion_status(pts) ==
    LET total  == Len(pts)
        filled == Cardinality({j \in 1..Len(pts) : pts[j].filled})
    IN  [total |-> total, filled |-> filled, remaining |-> total - filled,
         completion_rate |-> IF total > 0 THEN [num |-> filled, den |-> total]
                             ELSE [num |-> 0, den |-> 1],
         points |-> pts]

--------------------------------------------------------------------------
(* The inputs *)

\* the loaded document: three paragraphs and a table between the last two
Document0 ==
    << Para(<<"q", "1">>, 1), Para(<<"q", "2">>, 2),
       Table(<< <<"x">> >>, 4), Para(<<"q", "3">>, 3) >>

\* the para_index values of the located points: the paragraphs of the
\* loaded document (the indices outside it are given to the primitives
\* directly, see ApiIndexes)
ParaIndexes == 0 .. (Len(Paragraphs(Document0)) - 1)

RECURSIVE ListsUpTo(_, _)
ListsUpTo(S, n) ==
    IF n = 0 THEN {<< >>}
    ELSE LET shorter == ListsUpTo(S, n - 1)
         IN  shorter \cup {Append(s, c) : s \in shorter, c \in S}

Answer == TextBlock(<<"t">>)
Listing == CodeBlock(<<"a", NL>>, <<"p", "y">>)
GoodTable == TableBlock(<< <<"1", "2">>, <<"3">> >>, <<"A", "B">>)
EmptyTable == TableBlock(<< >>, << >>)
WideTable == TableBlock(<< <<"1", "2">> >>, <<"A">>)
Chart == ImageBlock("chart_1.png")
MissingChart == ImageBlock("missing.png")
BrokenChart == ImageBlock("broken.png")

\* the content lists handed to insert_content_at_point: the four documented
\* item types, alone and followed by further items
Contents ==
    { <<Answer>>,
      <<Answer, Answer, Answer>>,
      <<GoodTable, Answer>>,
      <<MissingChart, EmptyTable, Chart, Listing>>,
      <<BrokenChart, Answer>>,
      <<WideTable, Answer>> }

\* no handler call yet
NoCall ==
    [op |-> "none", k |-> 0, para_index |-> 0, content |-> << >>,
     body |-> << >>, points |-> << >>, n |-> 0, ok |-> TRUE]

\* get_completion_status not called yet
NoStatus ==
    [total |-> 0, filled |-> 0, remaining |-> 0,
     completion_rate |-> [num |-> 0, den |-> 1], points |-> << >>]

\* no reply of the language model yet, and no external call in flight
NoReply == [kind |-> "none"]
Idle == [kind |-> "none", hung |-> FALSE]

\* no chart in the workspace and nothing saved
NoFiles == [workspace |-> {}, saved |-> << >>]

\* the messages of process_document that tell of something not done
NoPointsFound == "No insertion points found. Document may already be complete."
FailedToGenerate == "Failed to generate content"
NotFilled == "Warning: insertion points not filled"

--------------------------------------------------------------------------
(* ReportAgent.process_document: locate, then one point after the other *)

Init ==
    /\ body = Document0
    /\ points = << >>
    /\ located = << >>
    /\ pc = "detect"
    /\ cur = 0
    /\ last = NoCall
    /\ status = NoStatus
    /\ result = "none"
    /\ console = {}
    /\ reply = NoReply
    /\ call = Idle
    /\ outcomes = << >>
    /\ generated = << >>
    /\ chart_counter = 0
    /\ test_mode = FALSE
    /\ disk = NoFiles
    /\ document = 1

\* _detect_insertion_points_with_llm and set_insertion_points: the points in
\* the order the response lists them; none found makes process_document
\* return True there and then
Detect ==
    /\ pc = "detect"
    /\ \E idxs \in ListsUpTo(ParaIndexes, MaxPoints) :
          /\ points' = [j \in 1..Len(idxs) |-> LocatedPoint(Document0, idxs[j], "d")]
          /\ located' = idxs
          /\ pc' = IF idxs = << >> THEN "done" ELSE "loop"
          /\ result' = IF idxs = << >> THEN "True" ELSE result
          /\ console' = IF idxs = << >> THEN console \cup {NoPointsFound}
                        ELSE console
    /\ UNCHANGED <<body, cur, last, status, reply, call, outcomes, generated,
                   chart_counter, test_mode,
                   disk, document>>

\* one pass of the loop over insertion_points: generated content is inserted,
\* no content leaves the point as it is; an exception from the handler ends
\* process_document
ProcessPoint ==
    /\ pc = "loop"
    /\ cur < Len(points)
    /\ \/ /\ cur' = cur + 1
          /\ generated' = << >>
          /\ console' = console \cup {FailedToGenerate}
          /\ UNCHANGED <<body, points, pc, last>>
       \/ \E content \in Contents :
             LET r == insert_content_at_point(body, points, cur + 1, content)
             IN  /\ generated' = content
                 /\ body' = r.body
                 /\ points' = r.points
                 /\ last' = [op |-> "insert_content_at_point", k |-> cur + 1,
                             para_index |-> points[cur + 1].para_index,
                             content |-> content, body |-> body,
                             points |-> points, n |-> r.inserted_total,
                             ok |-> r.ok]
                 /\ pc' = IF r.ok THEN "loop" ELSE "raised"
                 /\ cur' = IF r.ok THEN cur + 1 ELSE cur
                 /\ UNCHANGED console
    /\ UNCHANGED <<located, status, result, reply, call, outcomes,
                   chart_counter, test_mode,
                   disk, document>>

\* a slip: success reported as soon as one point is filled
Finish_any_filled ==
    /\ pc = "loop"
    /\ cur = Len(points)
    /\ status' = get_completion_status(points)
    /\ console' = IF status'.remaining > 0 THEN console \cup {NotFilled}
                  ELSE console
    /\ result' = IF status'.filled > 0 THEN "True" ELSE "False"
    /\ disk' = [disk EXCEPT !.saved = Append(@, body)]
    /\ pc' = "saved"
    /\ UNCHANGED <<body, points, located, cur, last, reply, call, outcomes,
                   generated, chart_counter, test_mode, document>>

\* a slip: the document saved only when every point is filled
Finish_complete_only ==
    /\ pc = "loop"
    /\ cur = Len(points)
    /\ status' = get_completion_status(points)
    /\ console' = IF status'.remaining > 0 THEN console \cup {NotFilled}
                  ELSE console
    /\ result' = IF status'.remaining = 0 THEN "True" ELSE "False"
    /\ disk' = IF status'.remaining = 0
               THEN [disk EXCEPT !.saved = Append(@, body)] ELSE disk
    /\ pc' = "saved"
    /\ UNCHANGED <<body, points, located, cur, last, reply, call, outcomes,
                   generated, chart_counter, test_mode, document>>

\* get_completion_status, the unfilled points printed, save, and the value
\* returned
Finish ==
    /\ pc = "loop"
    /\ cur = Len(points)
    /\ status' = get_completion_status(points)
    /\ console' = IF status'.remaining > 0 THEN console \cup {NotFilled}
                  ELSE console
    /\ result' = IF status'.remaining = 0 THEN "True" ELSE "False"
    /\ disk' = [disk EXCEPT !.saved = Append(@, body)]
    /\ pc' = "saved"
    /\ UNCHANGED <<body, points, located, cur, last, reply, call, outcomes,
                   generated, chart_counter, test_mode, document>>

Next == Detect \/ ProcessPoint \/ Finish

Spec == Init /\ [][Next]_vars

--------------------------------------------------------------------------
(* The primitives called directly on a loaded handler, as the tests do *)

\* the documents: with and without a table, and one ending in a table
ApiDocuments ==
    { Document0,
      << Para(<<"q", "1">>, 1), Para(<<"q", "2">>, 2) >>,
      << Para(<<"q", "1">>, 1), Table(<< <<"x">> >>, 4) >> }

\* every index of the document, the negative ones Python accepts, and the
\* ones past either end
ApiIndexes(b) == (0 - Len(Paragraphs(b)) - 1) .. (Len(Paragraphs(b)) + 1)

InitApi ==
    /\ body \in ApiDocuments
    /\ points = << >>
    /\ located = << >>
    /\ pc = "api"
    /\ cur = 0
    /\ last = NoCall
    /\ status = NoStatus
    /\ result = "none"
    /\ console = {}
    /\ reply = NoReply
    /\ call = Idle
    /\ outcomes = << >>
    /\ generated = << >>
    /\ chart_counter = 0
    /\ test_mode = FALSE
    /\ disk = NoFiles
    /\ document = 1

CallInsertParagraphAfter ==
    /\ pc = "api"
    /\ \E i \in ApiIndexes(body), text \in {<<"t">>, << >>} :
          LET r == insert_paragraph_after(body, i, text)
          IN  /\ body' = r.body
              /\ last' = [op |-> "insert_paragraph_after", k |-> 0,
                          para_index |-> i, content |-> <<TextBlock(text)>>,
                          body |-> body, points |-> points, n |-> 1,
                          ok |-> r.ok]
              /\ pc' = IF r.ok THEN "returned" ELSE "raised"
    /\ UNCHANGED <<points, located, cur, status, result, console, reply, call,
                   outcomes, generated, chart_counter, test_mode,
                   disk, document>>

CallInsertCodeBlock ==
    /\ pc = "api"
    /\ \E i \in ApiIndexes(body), code \in SeqsUpTo(CodeChars, MaxCodeLen) :
          LET r == insert_code_block(body, i, code, <<"p", "y">>)
          IN  /\ body' = r.body
              /\ last' = [op |-> "insert_code_block", k |-> 0,
                          para_index |-> i,
                          content |-> <<CodeBlock(code, <<"p", "y">>)>>,
                          body |-> body, points |-> points, n |-> r.n,
                          ok |-> r.ok]
              /\ pc' = IF r.ok THEN "returned" ELSE "raised"
    /\ UNCHANGED <<points, located, cur, status, result, console, reply, call,
                   outcomes, generated, chart_counter, test_mode,
                   disk, document>>

NextApi == CallInsertParagraphAfter \/ CallInsertCodeBlock

SpecApi == InitApi /\ [][NextApi]_vars

--------------------------------------------------------------------------
(* The model-assisted locator: ReportAgent._detect_insertion_points_with_llm *)

\* most entries of the "insertion_points" list of a reply
MaxItems == 3

\* an entry of the list as json.loads returns it: an object whose
\* "para_index" is an integer, is missing or null, is a string or is a
\* fraction, and a value that is no object
Item(kind, type, value, description) ==
    [kind |-> kind, type |-> type, value |-> value,
     description |-> description]
IntItem(n) == Item("object", "int", n, "d")
NullItem == Item("object", "none", 0, "d")
StrItem == Item("object", "str", 0, "d")
FloatItem == Item("object", "float", 0, "d")
NoObject == Item("other", "none", 0, "d")

\* the integers a reply names: the paragraphs of the document, the first
\* index past them, and negative ones
LocateIndexes ==
    {0 - Len(Paragraphs(Document0)) - 2, -1} \cup ParaIndexes
        \cup {Len(Paragraphs(Document0))}

Items ==
    {IntItem(n) : n \in LocateIndexes}
        \cup {NullItem, StrItem, FloatItem, NoObject}

\* a reply to the locating prompt: json tells what re.search and json.loads
\* make of it ("none": no {...} in the text, "invalid": json.loads raises,
\* "object"), key whether the object has "insertion_points", list whether
\* its value is a list, items the entries of the list
LocatorReply(json, key, list, items) ==
    [kind |-> "locate", json |-> json, key |-> key, list |-> list,
     items |-> items]

LocatorResponses ==
    { LocatorReply("none", FALSE, FALSE, << >>),
      LocatorReply("invalid", FALSE, FALSE, << >>),
      LocatorReply("object", FALSE, FALSE, << >>),
      LocatorReply("object", TRUE, FALSE, << >>) }
        \cup {LocatorReply("object", TRUE, TRUE, items) :
                 items \in ListsUpTo(Items, MaxItems)}

ParseWarning == "Warning: Failed to parse insertion points"

\* the loop over data["insertion_points"] from entry j on; acc holds the
\* points appended so far, raised tells that an entry raised
RECURSIVE ParseItems(_, _, _, _)
ParseItems(b, items, j, acc) ==
    IF j > Len(items) THEN [points |-> acc, raised |-> FALSE]
    ELSE LET item == items[j]
         IN  IF item.kind # "object"
             THEN [points |-> acc, raised |-> TRUE]
             ELSE IF item.type = "none"
             THEN ParseItems(b, items, j + 1, acc)
             ELSE IF item.type # "int"
             THEN [points |-> acc, raised |-> TRUE]
             ELSE IF ~get_context_around_index(b, item.value).ok
             THEN [points |-> acc, raised |-> TRUE]
             ELSE ParseItems(b, items, j + 1,
                             Append(acc, LocatedPoint(b, item.value,
                                                      item.description)))

\* ReportAgent._parse_insertion_points_response: the points it returns and
\* what it prints; every exception is caught, `return points` hands back
\* whatever was appended before it
_parse_insertion_points_response(response, b) ==
    IF response.json = "none" \/ (response.json = "object" /\ ~response.key)
    THEN [points |-> << >>, printed |-> {}]
    ELSE IF response.json = "invalid" \/ ~response.list
    THEN [points |-> << >>, printed |-> {ParseWarning}]
    ELSE LET r == ParseItems(b, response.items, 1, << >>)
         IN  [points |-> r.points,
              printed |-> IF r.raised THEN {ParseWarning} ELSE {}]

\* _detect_insertion_points_with_llm with the reply of the model taken from
\* replies: the reply parsed, the points registered with
\* set_insertion_points, and process_document returning True when there
\* are none
Locate(replies) ==
    /\ pc = "detect"
    /\ \E response \in replies :
          LET r == _parse_insertion_points_response(response, body)
          IN  /\ reply' = response
              /\ points' = r.points
              /\ located' = [j \in 1..Len(r.points) |-> r.points[j].para_index]
              /\ console' = console \cup r.printed
                               \cup (IF r.points = << >> THEN {NoPointsFound}
                                     ELSE {})
              /\ pc' = IF r.points = << >> THEN "done" ELSE "loop"
              /\ result' = IF r.points = << >> THEN "True" ELSE result
    /\ UNCHANGED <<body, cur, last, status, call, outcomes, generated,
                   chart_counter, test_mode,
                   disk, document>>

NextLocate == Locate(LocatorResponses)

SpecLocate == Init /\ [][NextLocate]_vars

--------------------------------------------------------------------------
(* The parser of a generated text:                                        *)
(* ReportAgent._parse_response_to_structured_content                      *)

\* the backtick, a character a TLA+ string cannot hold, is written ^
Backtick == "^"
Fence == <<Backtick, Backtick, Backtick>>
Python == <<"p", "y", "t", "h", "o", "n">>
Plt == <<"p", "l", "t", ".">>
Matplotlib == <<"m", "a", "t", "p", "l", "o", "t", "l", "i", "b">>

\* the characters \w matches, among those the model uses
WordChars ==
    {"a", "b", "c", "h", "i", "l", "m", "n", "o", "p", "t", "x", "y", "P"}

\* str.lower() of a character
LowerChar(c) == IF c = "P" THEN "p" ELSE c

Lower(s) == [j \in 1..Len(s) |-> LowerChar(s[j])]

\* the placeholder re.sub leaves for code block n; it is one element of the
\* text it stands in
Placeholder(n) == "<<<CODE_BLOCK_" \o ToString(n) \o ">>>"

\* str.find from position i on: the first position of sub in s, 0 for none
Find(s, sub, i) ==
    LET at == {p \in i..(Len(s) - Len(sub) + 1) :
                  SubSeq(s, p, p + Len(sub) - 1) = sub}
    IN  IF at = {} THEN 0 ELSE CHOOSE p \in at : \A q \in at : p <= q

\* the test `sub in s`
Contains(s, sub) == Find(s, sub, 1) # 0

\* the length of the longest run of characters of S that starts at i
Run(s, i, S) ==
    LET stops == {e \in (i - 1)..Len(s) : \A q \in i..e : s[q] \in S}
    IN  IF i > Len(s) THEN 0
        ELSE (CHOOSE e \in stops : \A f \in stops : f <= e) - i + 1

\* code_pattern matched at position p: three backticks, the longest run of
\* \w, a newline, and the shortest text up to the next three backticks
MatchCode(s, p) ==
    LET w     == Run(s, p + 3, WordChars)
        nl    == p + 3 + w
        close == Find(s, Fence, nl + 1)
    IN  IF  /\ p + 2 <= Len(s)
            /\ SubSeq(s, p, p + 2) = Fence
            /\ nl <= Len(s)
            /\ s[nl] = NL
            /\ close # 0
        THEN [ok |-> TRUE,
              language |-> IF w = 0 THEN Python
                           ELSE Lower(SubSeq(s, p + 3, nl - 1)),
              code |-> SubSeq(s, nl + 1, close - 1),
              next |-> close + 3]
        ELSE [ok |-> FALSE, language |-> << >>, code |-> << >>, next |-> p + 1]

\* re.sub(code_pattern, replace_code_block, response) from position i on:
\* the text with a placeholder for every match, and code_blocks
RECURSIVE ReplaceCodeBlocks(_, _, _, _)
ReplaceCodeBlocks(s, i, text, code_blocks) ==
    IF i > Len(s) THEN [text |-> text, code_blocks |-> code_blocks]
    ELSE LET m == MatchCode(s, i)
         IN  IF m.ok
             THEN ReplaceCodeBlocks(s, m.next,
                     Append(text, Placeholder(Len(code_blocks))),
                     Append(code_blocks,
                            [language |-> m.language, code |-> m.code]))
             ELSE ReplaceCodeBlocks(s, i + 1, Append(text, s[i]), code_blocks)

\* str.strip()
Strip(s) ==
    LET solid == {q \in 1..Len(s) : s[q] \notin Whitespace}
    IN  IF solid = {} THEN << >>
        ELSE SubSeq(s, CHOOSE q \in solid : \A r \in solid : q <= r,
                       CHOOSE q \in solid : \A r \in solid : r <= q)

\* re.sub of mark([^*]+)mark by the group, from position i on, for the
\* mark ** or *
RECURSIVE Unmark(_, _, _)
Unmark(s, i, mark) ==
    IF i > Len(s) THEN << >>
    ELSE LET from  == i + Len(mark)
             inner == Run(s, from, {c \in {s[q] : q \in 1..Len(s)} : c # "*"})
             after == from + inner
         IN  IF /\ after + Len(mark) - 1 <= Len(s)
                /\ SubSeq(s, i, from - 1) = mark
                /\ inner > 0
                /\ SubSeq(s, after, after + Len(mark) - 1) = mark
             THEN SubSeq(s, from, after - 1)
                     \o Unmark(s, after + Len(mark), mark)
             ELSE <<s[i]>> \o Unmark(s, i + 1, mark)

\* "Remove markdown formatting": bold first, then italic
RemoveFormatting(s) == Unmark(Unmark(s, 1, <<"*", "*">>), 1, <<"*">>)

\* str.join of the lines of current_para, a space between them
RECURSIVE JoinSpace(_)
JoinSpace(lines) ==
    IF lines = << >> THEN << >>
    ELSE IF Len(lines) = 1 THEN lines[1]
    ELSE lines[1] \o <<" ">> \o JoinSpace(Tail(lines))

\* CodeExecutor.available_tools: the tools found on the machine
available_tools == {"python", "gcc"}

\* CodeExecutor.can_execute_language
can_execute_language(language) ==
    CASE language \in {<<"c">>, <<"c", "p", "p">>} ->
            "gcc" \in available_tools \/ "g++" \in available_tools
      [] language = Python -> "python" \in available_tools
      [] language = <<"j", "a", "v", "a">> ->
            "javac" \in available_tools /\ "java" \in available_tools
      [] OTHER -> FALSE

\* a description is one string; "code" stands for a description that
\* contains one of the three words the parser looks for
HasKeyword(description) == description = "code"

\* the first lines of the two texts that report an execution, each one
\* element of the text, and the output of a run cut off after 30 s
ResultHeader == "[execution result]"
FailureHeader == "[execution failed]"
TimedOut == "Execution timed out (30s limit)"

\* `language == 'python' and ('plt.' in code or 'matplotlib' in code)`
IsChartCode(block) ==
    block.language = Python
        /\ (Contains(block.code, Plt) \/ Contains(block.code, Matplotlib))

\* a slip: a text block appended with nothing collected
Flush_always(w, text) ==
    [w EXCEPT !.content = Append(@, TextBlock(text)),
              !.current_para = << >>]

\* the paragraph collected in current_para appended as a text block
Flush(w, text) ==
    IF w.current_para = << >> THEN w
    ELSE [w EXCEPT !.content = Append(@, TextBlock(text)),
                   !.current_para = << >>]

\* a slip: the picture put after the code it was drawn from
ProcessCodeBlock_code_first(w, block, description, outs) ==
    LET code == CodeBlock(block.code, block.language)
    IN  IF IsChartCode(block)
        THEN IF w.used >= Len(outs)
             THEN [w EXCEPT !.waiting = "chart rendering"]
             ELSE LET chart == outs[w.used + 1]
                  IN  [w EXCEPT
                         !.used = @ + 1,
                         !.content = IF chart.ok
                                     THEN @ \o <<code, ImageBlock(chart.path)>>
                                     ELSE Append(@, code)]
        ELSE IF can_execute_language(block.language) /\ HasKeyword(description)
        THEN IF w.used >= Len(outs)
             THEN [w EXCEPT !.waiting = "code execution"]
             ELSE LET run == outs[w.used + 1]
                  IN  [w EXCEPT
                         !.used = @ + 1,
                         !.content =
                            @ \o <<code,
                                   TextBlock(<<IF run.ok THEN ResultHeader
                                               ELSE FailureHeader, NL>>
                                             \o run.output)>>]
        ELSE [w EXCEPT !.content = Append(@, code)]

\* a slip: every execution reported as a success
ProcessCodeBlock_always_success(w, block, description, outs) ==
    LET code == CodeBlock(block.code, block.language)
    IN  IF IsChartCode(block)
        THEN IF w.used >= Len(outs)
             THEN [w EXCEPT !.waiting = "chart rendering"]
             ELSE LET chart == outs[w.used + 1]
                  IN  [w EXCEPT
                         !.used = @ + 1,
                         !.content = IF chart.ok
                                     THEN @ \o <<ImageBlock(chart.path), code>>
                                     ELSE Append(@, code)]
        ELSE IF can_execute_language(block.language) /\ HasKeyword(description)
        THEN IF w.used >= Len(outs)
             THEN [w EXCEPT !.waiting = "code execution"]
             ELSE LET run == outs[w.used + 1]
                  IN  [w EXCEPT
                         !.used = @ + 1,
                         !.content =
                            @ \o <<code,
                                   TextBlock(<<ResultHeader, NL>>
                                             \o run.output)>>]
        ELSE [w EXCEPT !.content = Append(@, code)]

\* a code block met by the loop over the lines.  outs holds what the chart
\* generator and the executor returned to the calls made so far, w.used
\* tells how many of them the loop has consumed; with none left the loop
\* waits for the call named in w.waiting.
ProcessCodeBlock(w, block, description, outs) ==
    LET code == CodeBlock(block.code, block.language)
    IN  IF IsChartCode(block)
        THEN IF w.used >= Len(outs)
             THEN [w EXCEPT !.waiting = "chart rendering"]
             ELSE LET chart == outs[w.used + 1]
                  IN  [w EXCEPT
                         !.used = @ + 1,
                         !.content = IF chart.ok
                                     THEN @ \o <<ImageBlock(chart.path), code>>
                                     ELSE Append(@, code)]
        ELSE IF can_execute_language(block.language) /\ HasKeyword(description)
        THEN IF w.used >= Len(outs)
             THEN [w EXCEPT !.waiting = "code execution"]
             ELSE LET run == outs[w.used + 1]
                  IN  [w EXCEPT
                         !.used = @ + 1,
                         !.content =
                            @ \o <<code,
                                   TextBlock(<<IF run.ok THEN ResultHeader
                                               ELSE FailureHeader, NL>>
                                             \o run.output)>>]
        ELSE [w EXCEPT !.content = Append(@, code)]

\* the loop over the lines from line j on
RECURSIVE ParseLines(_, _, _, _, _, _)
ParseLines(lines, j, w, code_blocks, description, outs) ==
    IF w.waiting # "none" THEN w
    ELSE IF j > Len(lines) THEN Flush(w, JoinSpace(w.current_para))
    ELSE LET line == Strip(lines[j])
             para == RemoveFormatting(JoinSpace(w.current_para))
         IN  IF /\ line # << >>
                /\ \E n \in 0..(Len(code_blocks) - 1) : line[1] = Placeholder(n)
             THEN LET code_idx == CHOOSE n \in 0..(Len(code_blocks) - 1) :
                                     line[1] = Placeholder(n)
                  IN  ParseLines(lines, j + 1,
                         ProcessCodeBlock(Flush(w, para),
                                          code_blocks[code_idx + 1],
                                          description, outs),
                         code_blocks, description, outs)
             ELSE IF line = << >> \/ line[1] = "#"
             THEN ParseLines(lines, j + 1, Flush(w, para), code_blocks,
                             description, outs)
             ELSE ParseLines(lines, j + 1,
                     [w EXCEPT !.current_para =
                                  Append(@, RemoveFormatting(line))],
                     code_blocks, description, outs)

\* _parse_response_to_structured_content for the point with this
\* description: content is what it returns once waiting is "none"
_parse_response_to_structured_content(response, description, outs) ==
    LET r == ReplaceCodeBlocks(response, 1, << >>, << >>)
    IN  ParseLines(Split(Strip(r.text)), 1,
                   [content |-> << >>, current_para |-> << >>, used |-> 0,
                    waiting |-> "none"],
                   r.code_blocks, description, outs)

--------------------------------------------------------------------------
(* Generating the content of a point:                                     *)
(* ReportAgent._generate_content_for_point and its caller                 *)

\* the parts generated texts are made of: a sentence, a line of blanks, a
\* heading, a bold word, and code blocks: a plot in Python, Python that
\* plots nothing, a plot with no language named, C, an unknown language
Sentence == <<"t">>
Blanks == <<" ">>
Heading == <<"#", "h">>
Bold == <<"*", "*", "b", "*", "*">>
ChartFence == Fence \o Python \o <<NL>> \o Plt \o <<"x", NL>> \o Fence
CodeFence == Fence \o Python \o <<NL, "a", NL>> \o Fence
BareFence == Fence \o <<NL>> \o Plt \o <<"x", NL>> \o Fence
CFence == Fence \o <<"c", NL, "a", NL>> \o Fence
XFence == Fence \o <<"x", NL, "a", NL>> \o Fence

Segments ==
    {Sentence, Blanks, Heading, Bold, ChartFence, CodeFence, BareFence,
     CFence, XFence}

\* the texts the parser is handed: up to MaxParts parts, one to a line
Responses ==
    {JoinLines(parts) : parts \in ListsUpTo(Segments, MaxParts) \ {<< >>}}

\* the texts the model answers with in a run of process_document
RunTexts ==
    { << >>, <<" ", NL>>, Heading, Sentence,
      JoinLines(<<Sentence, ChartFence>>), CodeFence }

ApiError == "Error calling AI API"

\* what a call of the model comes to: how it ended and the text handed to
\* the caller
Ended(how, text) == [how |-> how, text |-> text]

\* a slip: the text received before the timeout handed on
_api_interaction_partial(hung) ==
    IF hung THEN {Ended("timeout", Sentence)}
    ELSE {Ended("error", << >>)}
            \cup {Ended("returned", text) : text \in RunTexts}

\* _api_interaction: requests.post with timeout=180; every exception, the
\* timeout of a server that hangs among them, gives ""
_api_interaction(hung) ==
    IF hung THEN {Ended("timeout", << >>)}
    ELSE {Ended("error", << >>)}
            \cup {Ended("returned", text) : text \in RunTexts}

\* _stdio_interaction: input() until ===END=== or the end of the input;
\* nothing bounds the wait
_stdio_interaction(hung) ==
    IF hung THEN {}
    ELSE {Ended("returned", text) : text \in RunTexts}

\* what a collaborator hands to the parser
Outcome(ok, path, output) == [ok |-> ok, path |-> path, output |-> output]

\* what the code handed to the chart generator does when it is executed: it
\* saves the figure to output_path (the savefig that parse_chart_from_code
\* appends does), it saves the figure somewhere else, or it raises
ChartCodes == {"saves", "saves elsewhere", "raises"}

\* ChartGenerator.generate_chart for chart number n, exec(code) having
\* returned or raised: the figure is saved only `if not
\* output_path.exists()`, and the path is returned if the file exists; wrote
\* tells whether this call wrote the file
generate_chart(workspace, n, does) ==
    LET output_path == ChartPath(n)
        wrote == \/ does = "saves"
                 \/ does = "saves elsewhere" /\ output_path \notin workspace
    IN  IF does = "raises"
        THEN [workspace |-> workspace, path |-> "", wrote |-> FALSE]
        ELSE [workspace |-> workspace \cup {output_path},
              path |-> output_path, wrote |-> wrote]

\* ChartGenerator.parse_chart_from_code: exec(code) in this process, then
\* the path of the file if there is one, None after an exception; nothing
\* bounds the time exec takes
parse_chart_from_code(hung) ==
    IF hung THEN {}
    ELSE {generate_chart(disk.workspace, chart_counter, does) :
             does \in ChartCodes}

\* CodeExecutor.execute_code: subprocess.run with timeout=30
execute_code(hung) ==
    IF hung THEN {Outcome(FALSE, "", <<TimedOut>>)}
    ELSE {Outcome(TRUE, "", <<"o">>), Outcome(FALSE, "", <<"e">>)}

\* the loop of process_document turns to the next point: the prompt is
\* built and sent, the model answers in time or hangs
CallModel ==
    /\ pc = "loop"
    /\ cur < Len(points)
    /\ \E hung \in BOOLEAN :
          call' = [kind |-> "text generation", hung |-> hung]
    /\ pc' = "generate"
    /\ UNCHANGED <<body, points, located, cur, last, status, result, console,
                   reply, outcomes, generated, chart_counter, test_mode,
                   disk, document>>

\* the call of the model ends; `if not response: return []` and the caller
\* prints the failure and goes on, any other text is parsed
ModelReplies ==
    /\ pc = "generate"
    /\ \E r \in (IF test_mode THEN _stdio_interaction(call.hung)
                 ELSE _api_interaction(call.hung)) :
          /\ reply' = [kind |-> "generate", how |-> r.how, text |-> r.text]
          /\ IF r.text = << >>
             THEN /\ generated' = << >>
                  /\ console' = console \cup {FailedToGenerate}
                                   \cup (IF r.how = "returned" THEN {}
                                         ELSE {ApiError})
                  /\ cur' = cur + 1
                  /\ pc' = "loop"
             ELSE /\ pc' = "parse"
                  /\ UNCHANGED <<generated, console, cur>>
    /\ call' = Idle
    /\ outcomes' = << >>
    /\ UNCHANGED <<body, points, located, last, status, result,
                   chart_counter, test_mode,
                   disk, document>>

\* _parse_response_to_structured_content runs up to its next call of a
\* collaborator or, with every call answered, to its end; the caller then
\* inserts what was generated, or prints the failure when it is empty
ParseResponse ==
    /\ pc = "parse"
    /\ call = Idle
    /\ LET r == _parse_response_to_structured_content(
                   reply.text, points[cur + 1].description, outcomes)
           s == insert_content_at_point(body, points, cur + 1, r.content)
       IN  IF r.waiting # "none"
           THEN /\ \E hung \in BOOLEAN :
                      call' = [kind |-> r.waiting, hung |-> hung]
                /\ chart_counter' = IF r.waiting = "chart rendering"
                                    THEN chart_counter + 1
                                    ELSE chart_counter
                /\ UNCHANGED <<body, points, pc, cur, last, console,
                               generated>>
           ELSE IF r.content = << >>
           THEN /\ generated' = << >>
                /\ console' = console \cup {FailedToGenerate}
                /\ cur' = cur + 1
                /\ pc' = "loop"
                /\ UNCHANGED <<body, points, last, call, chart_counter>>
           ELSE /\ generated' = r.content
                /\ body' = s.body
                /\ points' = s.points
                /\ last' = [op |-> "insert_content_at_point", k |-> cur + 1,
                            para_index |-> points[cur + 1].para_index,
                            content |-> r.content, body |-> body,
                            points |-> points, n |-> s.inserted_total,
                            ok |-> s.ok]
                /\ pc' = IF s.ok THEN "loop" ELSE "raised"
                /\ cur' = IF s.ok THEN cur + 1 ELSE cur
                /\ UNCHANGED <<console, call, chart_counter>>
    /\ UNCHANGED <<located, status, result, reply, outcomes, test_mode,
                   disk, document>>

\* the collaborator the parser waits for returns
CollaboratorReturns ==
    /\ pc = "parse"
    /\ call.kind \in {"chart rendering", "code execution"}
    /\ \/ /\ call.kind = "chart rendering"
          /\ \E chart \in parse_chart_from_code(call.hung) :
                /\ outcomes' = Append(outcomes,
                                      Outcome(chart.path # "", chart.path, << >>))
                /\ disk' = [disk EXCEPT !.workspace = chart.workspace]
       \/ /\ call.kind = "code execution"
          /\ \E out \in execute_code(call.hung) :
                outcomes' = Append(outcomes, out)
          /\ UNCHANGED disk
    /\ call' = Idle
    /\ UNCHANGED <<body, points, located, pc, cur, last, status, result,
                   console, reply, generated, chart_counter, test_mode,
                   document>>

--------------------------------------------------------------------------
(* process_document with the model, the chart generator and the executor *)

\* an entry of the reply whose description asks for code
CodeItem(n) == Item("object", "int", n, "code")

\* the replies to the locating prompt
RunReplies ==
    { LocatorReply("none", FALSE, FALSE, << >>),
      LocatorReply("object", TRUE, TRUE, <<IntItem(0)>>),
      LocatorReply("object", TRUE, TRUE, <<IntItem(0), CodeItem(1)>>),
      LocatorReply("object", TRUE, TRUE, <<CodeItem(2), IntItem(0)>>) }

InitRun ==
    /\ body = Document0
    /\ points = << >>
    /\ located = << >>
    /\ pc = "detect"
    /\ cur = 0
    /\ last = NoCall
    /\ status = NoStatus
    /\ result = "none"
    /\ console = {}
    /\ reply = NoReply
    /\ call = Idle
    /\ outcomes = << >>
    /\ generated = << >>
    /\ chart_counter = 0
    /\ test_mode \in BOOLEAN
    /\ disk = NoFiles
    /\ document = 1

NextRun ==
    \/ Locate(RunReplies)
    \/ CallModel
    \/ ModelReplies
    \/ ParseResponse
    \/ CollaboratorReturns
    \/ Finish

SpecRun == InitRun /\ [][NextRun]_vars

\* ENABLED <<ParseResponse>>_vars: the parser is total, and each of its
\* branches changes call, cur or pc
ParseResponseEnabled == pc = "parse" /\ call = Idle

\* the run is one thread that goes on whenever it can: weak fairness of
\* every step of NextRun, that of ParseResponse written out with its
\* enabling condition
FairSpecRun ==
    /\ SpecRun
    /\ WF_vars(\/ Locate(RunReplies)
               \/ CallModel
               \/ ModelReplies
               \/ CollaboratorReturns
               \/ Finish)
    /\ \/ []<>(~ParseResponseEnabled)
       \/ []<><<ParseResponse>>_vars

--------------------------------------------------------------------------
(* The parser on its own: one point, and a text the model has returned *)

InitParse ==
    /\ body = Document0
    /\ \E description \in {"d", "code"} :
          points = <<LocatedPoint(Document0, 0, description)>>
    /\ located = <<0>>
    /\ pc = "parse"
    /\ cur = 0
    /\ last = NoCall
    /\ status = NoStatus
    /\ result = "none"
    /\ console = {}
    /\ \E text \in Responses :
          reply = [kind |-> "generate", how |-> "returned", text |-> text]
    /\ call = Idle
    /\ outcomes = << >>
    /\ generated = << >>
    /\ chart_counter = 0
    /\ test_mode = FALSE
    /\ disk = NoFiles
    /\ document = 1

NextParse == ParseResponse \/ CollaboratorReturns

SpecParse == InitParse /\ [][NextParse]_vars

--------------------------------------------------------------------------
(* DocxHandler.get_completion_status, asked for at any moment of a handler's
   life: points registered, some of them filled in any order *)

InitStatus ==
    /\ body = Document0
    /\ \E idxs \in ListsUpTo(ParaIndexes, MaxPoints) :
          /\ points = [j \in 1..Len(idxs) |-> LocatedPoint(Document0, idxs[j], "d")]
          /\ located = idxs
    /\ pc = "api"
    /\ cur = 0
    /\ last = NoCall
    /\ status = NoStatus
    /\ result = "none"
    /\ console = {}
    /\ reply = NoReply
    /\ call = Idle
    /\ outcomes = << >>
    /\ generated = << >>
    /\ chart_counter = 0
    /\ test_mode = FALSE
    /\ disk = NoFiles
    /\ document = 1

\* insert_content_at_point on a point not filled yet
CallInsertContentAtPoint ==
    /\ pc = "api"
    /\ \E k \in 1..Len(points) :
          /\ ~points[k].filled
          /\ LET r == insert_content_at_point(body, points, k, <<Answer>>)
             IN  /\ body' = r.body
                 /\ points' = r.points
                 /\ last' = [op |-> "insert_content_at_point", k |-> k,
                             para_index |-> points[k].para_index,
                             content |-> <<Answer>>, body |-> body,
                             points |-> points, n |-> r.inserted_total,
                             ok |-> r.ok]
    /\ UNCHANGED <<located, pc, cur, status, result, console, reply, call,
                   outcomes, generated, chart_counter, test_mode,
                   disk, document>>

\* get_completion_status: the dictionary is built from insertion_points and
\* nothing is assigned
CallGetCompletionStatus ==
    /\ pc = "api"
    /\ status' = get_completion_status(points)
    /\ pc' = "returned"
    /\ UNCHANGED <<body, points, located, cur, last, result, console, reply,
                   call, outcomes, generated, chart_counter, test_mode,
                   disk, document>>

NextStatus == CallInsertContentAtPoint \/ CallGetCompletionStatus

SpecStatus == InitStatus /\ [][NextStatus]_vars

--------------------------------------------------------------------------
(* The parser on texts that hold a Markdown table *)

\* a pipe-delimited table of one column: header, separator and one row
PipeTable == <<"|", "A", "|", NL, "|", "-", "|", NL, "|", "1", "|">>

TableSegments == {Sentence, Blanks, PipeTable, CodeFence}

\* the texts with tables the parser is handed, the first of them the shape
\* of the response of test_response_parsing_with_table
TableResponses ==
    {JoinLines(<<Sentence, << >>, PipeTable, << >>, Sentence>>)}
       \cup {JoinLines(parts) :
                parts \in ListsUpTo(TableSegments, MaxParts + 1) \ {<< >>}}

InitTable ==
    /\ body = Document0
    /\ \E description \in {"d", "code"} :
          points = <<LocatedPoint(Document0, 0, description)>>
    /\ located = <<0>>
    /\ pc = "parse"
    /\ cur = 0
    /\ last = NoCall
    /\ status = NoStatus
    /\ result = "none"
    /\ console = {}
    /\ \E text \in TableResponses :
          reply = [kind |-> "generate", how |-> "returned", text |-> text]
    /\ call = Idle
    /\ outcomes = << >>
    /\ generated = << >>
    /\ chart_counter = 0
    /\ test_mode = FALSE
    /\ disk = NoFiles
    /\ document = 1

SpecTable == InitTable /\ [][NextParse]_vars

--------------------------------------------------------------------------
(* DocxHandler.insert_table called on a loaded handler *)

\* the data rows: none to MaxCells cells, each cell named by its column
TableRows == {[c \in 1..n |-> ToString(c)] : n \in 0..MaxCells}

TableHeaders == {<< >>, <<"A">>, <<"A", "B">>}

CallInsertTable ==
    /\ pc = "api"
    /\ \E i \in ApiIndexes(body), headers \in TableHeaders,
          data \in SeqsUpTo(TableRows, MaxRows) :
          LET r == insert_table(body, i, data, headers)
          IN  /\ body' = r.body
              /\ last' = [op |-> "insert_table", k |-> 0, para_index |-> i,
                          content |-> <<TableBlock(data, headers)>>,
                          body |-> body, points |-> points, n |-> r.n,
                          ok |-> r.ok]
              /\ pc' = IF r.ok THEN "returned" ELSE "raised"
    /\ UNCHANGED <<points, located, cur, status, result, console, reply, call,
                   outcomes, generated, chart_counter, test_mode,
                   disk, document>>

SpecInsertTable == InitApi /\ [][CallInsertTable]_vars

--------------------------------------------------------------------------
(* process_document from its first line, and one document after another:  *)
(* by the same ReportAgent, or by a new one in the same working directory *)

EnvironmentFailed == "Environment check failed:"
LoadError == "Error loading document:"

InitAgent ==
    /\ body = << >>
    /\ points = << >>
    /\ located = << >>
    /\ pc = "start"
    /\ cur = 0
    /\ last = NoCall
    /\ status = NoStatus
    /\ result = "none"
    /\ console = {}
    /\ reply = NoReply
    /\ call = Idle
    /\ outcomes = << >>
    /\ generated = << >>
    /\ chart_counter = 0
    /\ test_mode \in BOOLEAN
    /\ disk = NoFiles
    /\ document = 1

\* check_environment and DocxHandler.load: either failure is printed and
\* process_document returns False; otherwise the handler holds the document
Start ==
    /\ pc = "start"
    /\ \/ /\ console' = console \cup {EnvironmentFailed}
          /\ result' = "False"
          /\ pc' = "done"
          /\ UNCHANGED body
       \/ /\ console' = console \cup {LoadError}
          /\ result' = "False"
          /\ pc' = "done"
          /\ UNCHANGED body
       \/ /\ body' = Document0
          /\ pc' = "detect"
          /\ UNCHANGED <<console, result>>
    /\ UNCHANGED <<points, located, cur, last, status, reply, call, outcomes,
                   generated, chart_counter, test_mode, disk, document>>

\* process_document is called for the next document once the call before
\* has returned: by the same agent, whose ChartGenerator is the one made in
\* ReportAgent.__init__, or by a new agent with a new ChartGenerator; the
\* workspace directory is the same, nothing of the path to save to is there
NextDocument ==
    /\ pc \in {"done", "saved"}
    /\ document < MaxDocuments
    /\ document' = document + 1
    /\ \/ UNCHANGED <<chart_counter, test_mode>>
       \/ chart_counter' = 0 /\ test_mode' \in BOOLEAN
    /\ disk' = [disk EXCEPT !.saved = << >>]
    /\ body' = << >>
    /\ points' = << >>
    /\ located' = << >>
    /\ pc' = "start"
    /\ cur' = 0
    /\ last' = NoCall
    /\ status' = NoStatus
    /\ result' = "none"
    /\ console' = {}
    /\ reply' = NoReply
    /\ call' = Idle
    /\ outcomes' = << >>
    /\ generated' = << >>

NextAgent ==
    \/ Start
    \/ Locate(RunReplies)
    \/ CallModel
    \/ ModelReplies
    \/ ParseResponse
    \/ CollaboratorReturns
    \/ Finish
    \/ NextDocument

SpecAgent == InitAgent /\ [][NextAgent]_vars

--------------------------------------------------------------------------
(* The parser on texts whose fences start or end inside a line *)

SpanSegments == {Sentence, CodeFence, ChartFence, XFence}

\* a part alone, and two parts with a newline, a blank or nothing between
SpanResponses ==
    SpanSegments
       \cup {first \o between \o second :
                first \in SpanSegments, second \in SpanSegments,
                between \in {<<NL>>, <<" ">>, << >>}}

InitSpans ==
    /\ body = Document0
    /\ \E description \in {"d", "code"} :
          points = <<LocatedPoint(Document0, 0, description)>>
    /\ located = <<0>>
    /\ pc = "parse"
    /\ cur = 0
    /\ last = NoCall
    /\ status = NoStatus
    /\ result = "none"
    /\ console = {}
    /\ \E text \in SpanResponses :
          reply = [kind |-> "generate", how |-> "returned", text |-> text]
    /\ call = Idle
    /\ outcomes = << >>
    /\ generated = << >>
    /\ chart_counter = 0
    /\ test_mode = FALSE
    /\ disk = NoFiles
    /\ document = 1

SpecSpans == InitSpans /\ [][NextParse]_vars

--------------------------------------------------------------------------
(* The chart generator on its own: renders asked of one generator after the
   other over a workspace directory that outlives them *)

InitChart ==
    /\ body = Document0
    /\ points = << >>
    /\ located = << >>
    /\ pc = "chart"
    /\ cur = 0
    /\ last = NoCall
    /\ status = NoStatus
    /\ result = "none"
    /\ console = {}
    /\ reply = NoReply
    /\ call = Idle
    /\ outcomes = << >>
    /\ generated = << >>
    /\ chart_counter = 0
    /\ test_mode = FALSE
    /\ disk = NoFiles
    /\ document = 1

\* ChartGenerator.__init__: the counter starts at 0, and
\* workspace.mkdir(exist_ok=True) leaves the files of the directory there
NewGenerator ==
    /\ pc = "chart"
    /\ chart_counter > 0
    /\ chart_counter' = 0
    /\ last' = NoCall
    /\ UNCHANGED <<body, points, located, pc, cur, status, result, console,
                   reply, call, outcomes, generated, test_mode, disk,
                   document>>

\* ChartGenerator.parse_chart_from_code(code): None at once for a code
\* without plt. or matplotlib; otherwise generate_chart with the next number
\* of the counter.  The code that saves is the one that draws and has
\* savefig(output_path) appended or saves to output_path itself; the one
\* that saves elsewhere has a savefig of its own for another file
CallParseChartFromCode ==
    /\ pc = "chart"
    /\ \/ /\ last' = [op |-> "parse_chart_from_code", code |-> "no plt",
                      workspace |-> disk.workspace, path |-> "",
                      wrote |-> FALSE]
          /\ UNCHANGED <<chart_counter, disk>>
       \/ /\ chart_counter < MaxCharts
          /\ \E does \in ChartCodes :
                LET chart == generate_chart(disk.workspace, chart_counter + 1,
                                            does)
                IN  /\ chart_counter' = chart_counter + 1
                    /\ disk' = [disk EXCEPT !.workspace = chart.workspace]
                    /\ last' = [op |-> "parse_chart_from_code", code |-> does,
                                workspace |-> disk.workspace,
                                path |-> chart.path, wrote |-> chart.wrote]
    /\ UNCHANGED <<body, points, located, pc, cur, status, result, console,
                   reply, call, outcomes, generated, test_mode, document>>

NextChart == NewGenerator \/ CallParseChartFromCode

SpecChart == InitChart /\ [][NextChart]_vars

--------------------------------------------------------------------------
(* The claims *)

\* the last handler call was an insert_content_at_point that returned
FillDone == last.op = "insert_content_at_point" /\ last.ok

\* the count recorded for a filled point
RecordedCount(p) == p.actual_insert_index - p.para_index

\* C1: when insert_content_at_point(point, content) returns having inserted
\* inserted_total units, every other registered point that was unfilled and
\* had para_index > point.para_index has para_index greater by exactly
\* inserted_total.
C1_Rebasing ==
    FillDone =>
        \A j \in 1..Len(points) :
            ( /\ j # last.k
              /\ ~last.points[j].filled
              /\ last.points[j].para_index > last.points[last.k].para_index )
            => points[j].para_index = last.points[j].para_index + last.n

\* C1, its case: points at 0 and 1, the one at 0 filled with three text
\* blocks, the other moved to 4
C1_Witness ==
    /\ FillDone
    /\ last.content = <<Answer, Answer, Answer>>
    /\ last.n = 3
    /\ last.points[last.k].para_index = 0
    /\ \E j \in 1..Len(points) :
          /\ ~points[j].filled
          /\ last.points[j].para_index = 1
          /\ points[j].para_index = 4

\* the counts recorded for the filled points among the first m whose
\* original anchor is smaller than a
RECURSIVE SumSmaller(_, _)
SumSmaller(a, m) ==
    IF m = 0 THEN 0
    ELSE SumSmaller(a, m - 1)
         + (IF points[m].filled /\ located[m] < a
            THEN RecordedCount(points[m]) ELSE 0)

\* C2: whatever points were filled, with whatever content, every unfilled
\* point's para_index is its original value plus the sum of the inserted
\* counts of the fills whose original anchor was smaller.
C2_IndexStability ==
    \A j \in 1..Len(points) :
        ~points[j].filled
        => points[j].para_index = located[j] + SumSmaller(located[j], Len(points))

\* C2, its case: an unfilled point behind two fills at smaller anchors, both
\* of which inserted something
C2_Witness ==
    \E j \in 1..Len(points) :
        /\ ~points[j].filled
        /\ Cardinality({i \in 1..Len(points) :
                          /\ points[i].filled
                          /\ located[i] < located[j]
                          /\ RecordedCount(points[i]) > 0}) >= 2
        /\ points[j].para_index > located[j] + 1

\* C3: after every insert_content_at_point, each unfilled point's para_index
\* addresses, through doc.paragraphs, the paragraph it addressed when the
\* point was located.
C3_AnchorValidity ==
    FillDone =>
        \A j \in 1..Len(points) :
            ~points[j].filled
            => /\ points[j].para_index < Len(Paragraphs(body))
               /\ Paragraphs(body)[points[j].para_index + 1].id
                     = Paragraphs(Document0)[located[j] + 1].id

\* the body elements a content list stands for, in ContentBlock order
RECURSIVE UnitsOf(_)
UnitsOf(content) ==
    IF content = << >> THEN << >>
    ELSE LET item == Head(content)
             units ==
                CASE item.type = "text" -> <<Para(item.data, 0)>>
                  [] item.type = "code" ->
                       [x \in 1..Len(Split(item.data)) |->
                           Para(CodeLineText(Split(item.data)[x]), 0)]
                  [] item.type = "table" ->
                       LET r == insert_table(<< >>, 0, item.rows, item.headers)
                       IN  r.body
                  [] item.type = "image" /\ FileState(item.path) = "image" ->
                       <<PicturePara(item.path)>>
                  [] OTHER -> << >>
         IN  units \o UnitsOf(Tail(content))

\* C4: the units insert_content_at_point inserts form one contiguous run
\* right after the anchor paragraph (at the end of the body for an anchor
\* past the last paragraph), in ContentBlock order, for every sequence of
\* kinds.
C4_ContiguousRun ==
    FillDone =>
        LET pos == IF last.para_index < Len(Paragraphs(last.body))
                   THEN ParaPos(last.body, last.para_index)
                   ELSE Len(last.body)
        IN  body = SubSeq(last.body, 1, pos) \o UnitsOf(last.content)
                   \o SubSeq(last.body, pos + 1, Len(last.body))

\* C5: after a fill the point is filled and the number of addressable blocks
\* (doc.paragraphs) has grown by exactly the count recorded for the point.
C5_CountAccounting ==
    FillDone =>
        /\ points[last.k].filled
        /\ Len(Paragraphs(body)) - Len(Paragraphs(last.body))
              = RecordedCount(points[last.k])

\* C6: for 0 <= i < blockCount, insert_paragraph_after(i, B) leaves the block
\* at i and the blocks before it as they were, puts B at i + 1 and moves each
\* block formerly at j > i to j + 1; for i >= blockCount B becomes the last
\* block.
C6_SplicePrimitive ==
    last.op = "insert_paragraph_after" /\ last.para_index >= 0 =>
        LET pre  == Paragraphs(last.body)
            post == Paragraphs(body)
            i    == last.para_index
            B    == last.content[1].data
        IN  /\ last.ok
            /\ Len(post) = Len(pre) + 1
            /\ Len(body) = Len(last.body) + 1
            /\ i < Len(pre) =>
                  /\ \A j \in 0..i : post[j + 1] = pre[j + 1]
                  /\ post[i + 2].text = B
                  /\ \A j \in (i + 1)..(Len(pre) - 1) : post[j + 2] = pre[j + 1]
                  /\ body[ParaPos(last.body, i) + 1] = post[i + 2]
            /\ i >= Len(pre) =>
                  /\ SubSeq(body, 1, Len(last.body)) = last.body
                  /\ body[Len(body)].kind = "p"
                  /\ body[Len(body)].text = B

\* C6, its case: B spliced after block 1 of three, the former block 2 now
\* at 3
C6_Witness ==
    /\ last.op = "insert_paragraph_after"
    /\ last.para_index = 1
    /\ Len(Paragraphs(last.body)) = 3
    /\ Paragraphs(body)[3].text = <<"t">>
    /\ Paragraphs(body)[4] = Paragraphs(last.body)[3]

\* the number of newline characters in a text, plus one
NumLines(code) == Cardinality({j \in 1..Len(code) : code[j] = NL}) + 1

\* C7: insert_code_block(i, code, language) adds one paragraph per line of
\* the code (split on newline) and returns the number of lines, no paragraph
\* for the language; for i >= 0 the paragraphs stand in line order directly
\* after paragraph i (at the end for i past the last paragraph); a blank
\* line becomes a single-space paragraph.
C7_CodeBlock ==
    /\ last.op = "insert_code_block" /\ last.para_index >= 0 => last.ok
    /\ last.op = "insert_code_block" /\ last.ok =>
        LET pre   == Paragraphs(last.body)
            post  == Paragraphs(body)
            i     == last.para_index
            code  == last.content[1].data
            lines == Split(code)
            first == IF i < Len(pre) THEN i + 1 ELSE Len(pre)
        IN  /\ last.n = NumLines(code)
            /\ Len(lines) = last.n
            /\ JoinLines(lines) = code
            /\ \A x \in 1..Len(lines) : \A y \in 1..Len(lines[x]) : lines[x][y] # NL
            /\ Len(post) = Len(pre) + last.n
            /\ Len(body) = Len(last.body) + last.n
            /\ i >= 0 =>
                  /\ \A j \in 1..first : post[j] = pre[j]
                  /\ \A j \in (first + 1)..Len(pre) : post[j + last.n] = pre[j]
                  /\ \A x \in 1..last.n :
                        /\ post[first + x].id = 0
                        /\ post[first + x].text =
                              IF \A y \in 1..Len(lines[x]) :
                                    lines[x][y] \in Whitespace
                              THEN <<" ">> ELSE lines[x]
                  /\ i < Len(pre) =>
                        \A x \in 1..last.n :
                            body[ParaPos(last.body, i) + x] = post[first + x]

\* C7, its case: a two-line code whose second line is blank, after
\* paragraph 1: two paragraphs, the second a single space
C7_Witness ==
    /\ last.op = "insert_code_block"
    /\ last.para_index = 1
    /\ last.content[1].data = <<"a", NL, " ">>
    /\ last.n = 2
    /\ Len(Paragraphs(body)) = Len(Paragraphs(last.body)) + 2
    /\ Paragraphs(body)[3].text = <<"a">>
    /\ Paragraphs(body)[4].text = <<" ">>

\* an image item whose path names no file
IsMissingImage(item) == item.type = "image" /\ FileState(item.path) = "absent"

IsPresent(item) == ~IsMissingImage(item)

\* C8: an image item whose path does not resolve to a file adds nothing and
\* advances neither the cursor nor the total; the call does what it does
\* for the content without that item: the later items are inserted and the
\* point is marked filled.
C8_MissingImageSkipped ==
    ( /\ last.op = "insert_content_at_point"
      /\ \E x \in 1..Len(last.content) : IsMissingImage(last.content[x]) )
    => LET r == insert_content_at_point(last.body, last.points, last.k,
                                        SelectSeq(last.content, IsPresent))
       IN  /\ last.ok = r.ok
           /\ body = r.body
           /\ last.n = r.inserted_total
           /\ last.ok =>
                 /\ points[last.k].filled
                 /\ \A j \in 1..Len(points) :
                       /\ points[j].para_index = r.points[j].para_index
                       /\ points[j].filled = r.points[j].filled
                       /\ points[j].actual_insert_index
                             = r.points[j].actual_insert_index

\* C8, its case: a missing chart ahead of a chart and a listing; the chart
\* sits right after the anchor and the point is filled with a total of 3
C8_Witness ==
    /\ FillDone
    /\ last.content = <<MissingChart, EmptyTable, Chart, Listing>>
    /\ last.para_index = 0
    /\ last.n = 3
    /\ points[last.k].filled
    /\ Paragraphs(body)[2].pic = "chart_1.png"
    /\ Paragraphs(body)[3].text = <<"a">>

\* C9: no failure of a single item escapes insert_content_at_point: the call
\* returns, the point is marked filled and the items after the failing one
\* are inserted.
C9_NoFailureEscapes ==
    last.op = "insert_content_at_point" =>
        /\ last.ok
        /\ pc # "raised"
        /\ points[last.k].filled

\* an item that puts at least one unit into the document
IsSpliced(item) ==
    /\ ~IsMissingImage(item)
    /\ item.type = "table" => insert_table(<< >>, 0, item.rows, item.headers).n > 0

\* C10: after a fill, point.content holds exactly the items that were
\* spliced into the document, in order; a skipped item is not in it.
C10_ContentIsWhatWasSpliced ==
    FillDone => points[last.k].content = SelectSeq(last.content, IsSpliced)

\* C11: every point is created unfilled, before anything is inserted; from
\* then on no step unfills a point or changes the number of registered
\* points, and the completion status covers every located point.
C11_Lifecycle ==
    /\ [][pc = "detect" =>
            /\ \A j \in 1..Len(points') : ~points'[j].filled
            /\ body' = body
            /\ last' = NoCall]_vars
    /\ [][pc # "detect" =>
            /\ Len(points') = Len(points)
            /\ \A j \in 1..Len(points) :
                  points[j].filled => points'[j].filled]_vars
    /\ [](pc = "saved" =>
            /\ status.total = Len(located)
            /\ Len(status.points) = Len(located))

\* C11, its case: a run of three points that ended with the first two
\* filled, one after the other, and the third still unfilled
C11_Witness ==
    /\ pc = "saved"
    /\ Len(points) = 3
    /\ points[1].filled /\ points[2].filled /\ ~points[3].filled
    /\ status.total = 3

\* the counts recorded in pts by the filled points ahead of point k in the
\* list, among the first m, whose original anchor is smaller than k's
RECURSIVE EarlierFills(_, _, _)
EarlierFills(pts, k, m) ==
    IF m = 0 THEN 0
    ELSE EarlierFills(pts, k, m - 1)
         + (IF m < k /\ pts[m].filled /\ located[m] < located[k]
            THEN RecordedCount(pts[m]) ELSE 0)

\* C12: the loop takes the points one at a time in the order the locator
\* returned them, each one once; a handler call is for the next point in
\* that order and acts on the body and the points as the step before left
\* them, so the anchor it reads and inserts at is the located one re-based
\* by every earlier fill in front of it.
C12_Sequential ==
    /\ [][/\ cur' \in {cur, cur + 1}
          /\ last' # last =>
                /\ pc = "loop"
                /\ last'.op = "insert_content_at_point"
                /\ last'.k = cur + 1
                /\ last'.k > last.k
                /\ last'.points = points
                /\ last'.body = body]_vars
    /\ [](pc = "saved" => cur = Len(points))
    /\ [](last.op = "insert_content_at_point" =>
            /\ last.para_index
                  = located[last.k]
                    + EarlierFills(last.points, last.k, Len(last.points))
            /\ last.ok =>
                  /\ points[last.k].para_index = last.para_index
                  /\ points[last.k].actual_insert_index
                        = last.para_index + last.n)

\* C12, its case: the second point of the list is filled after the first,
\* at the anchor the first fill's three paragraphs moved it to
C12_Witness ==
    /\ FillDone
    /\ last.k = 2
    /\ last.points[1].filled
    /\ located = <<0, 1>>
    /\ RecordedCount(last.points[1]) = 3
    /\ last.para_index = 4
    /\ points[2].actual_insert_index = 4 + last.n

\* C13: the list of points a locator returns is in non-decreasing para_index
\* order, whatever order the reply lists them in.
C13_LocatedInOrder ==
    pc # "detect" =>
        \A i, j \in 1..Len(points) :
            i < j => points[i].para_index <= points[j].para_index

\* a reply without the structured data, or malformed somewhere
Malformed(response) ==
    \/ response.json # "object"
    \/ ~response.key
    \/ ~response.list
    \/ \E j \in 1..Len(response.items) :
          \/ response.items[j].kind # "object"
          \/ response.items[j].type # "int"

\* C14: for a reply that is missing the structured data or is malformed
\* anywhere, _parse_insertion_points_response returns the empty list, prints
\* a warning and raises nothing.
C14_FailsSoft ==
    reply.kind = "locate" /\ Malformed(reply) =>
        /\ points = << >>
        /\ ParseWarning \in console
        /\ pc # "raised"

\* C15: a text-generation call that fails, times out or returns the empty
\* text hands the empty string to its caller and raises nothing; the point
\* stays unfilled, the document and every point are as they were, and the
\* loop turns to the next point.
C15_GenerationFailure ==
    [][pc = "generate" =>
         /\ reply'.how \in {"error", "timeout"} => reply'.text = << >>
         /\ reply'.text = << >> =>
               /\ generated' = << >>
               /\ body' = body
               /\ points' = points
               /\ ~points'[cur + 1].filled
               /\ last' = last
               /\ pc' = "loop"
               /\ cur' = cur + 1
               /\ FailedToGenerate \in console']_vars

\* C15, its case: the call for the first of two points failed, the
\* first point is unfilled and the second was filled after it
C15_Witness ==
    /\ Len(points) = 2
    /\ cur = 2
    /\ ApiError \in console
    /\ ~points[1].filled
    /\ points[1].para_index = located[1]
    /\ points[2].filled
    /\ last.k = 2
    /\ last.body = Document0

\* the positions of the points of a list that are not filled
Unfilled(pts) == {j \in 1..Len(pts) : ~pts[j].filled}

\* C16: process_document has returned True exactly when every located point
\* is filled at the end of the run, and False when one is not; the completion
\* status it printed counts and lists exactly the points still unfilled, and
\* the warning is printed exactly when there is one; a run that has not
\* returned has no return value
C16_SuccessIffAllFilled ==
    /\ pc \in {"saved", "done"} =>
          /\ result \in {"True", "False"}
          /\ result = "True" <=> Unfilled(points) = {}
          /\ Len(points) = Len(located)
          /\ Unfilled(status.points) = Unfilled(points)
          /\ status.remaining = Cardinality(Unfilled(points))
          /\ NotFilled \in console <=> Unfilled(points) # {}
    /\ pc = "saved" => status.points = points
    /\ pc \notin {"saved", "done"} => result = "none"

\* C16, its case: a run over three points that filled the first and the
\* third only, and returned False with the second reported
C16_Witness ==
    /\ pc = "saved"
    /\ located = <<0, 1, 2>>
    /\ Unfilled(points) = {2}
    /\ Unfilled(status.points) = {2}
    /\ status.remaining = 1
    /\ result = "False"
    /\ NotFilled \in console

\* the points of a list that are filled
Filled(pts) == {j \in 1..Len(pts) : pts[j].filled}

\* C17: get_completion_status changes neither the points nor the document;
\* total is the number of registered points, filled the number of those with
\* filled true, remaining their difference, the points are listed as they
\* are, and completion_rate is filled/total when there is a point and 0 when
\* there is none
C17_PureAggregation ==
    /\ [][pc' = "returned" => points' = points /\ body' = body]_vars
    /\ [](pc = "returned" =>
            /\ status.total = Len(points)
            /\ status.filled = Cardinality(Filled(points))
            /\ status.remaining = status.total - status.filled
            /\ status.points = points
            /\ status.completion_rate.den > 0
            /\ IF status.total > 0
               THEN status.completion_rate.num * status.total
                        = status.filled * status.completion_rate.den
               ELSE status.completion_rate.num = 0)

\* C17, its case: the status of three points with two of them filled is
\* 3, 2, 1 and the rate 2/3
C17_Witness ==
    /\ pc = "returned"
    /\ Len(points) = 3
    /\ Filled(points) = {1, 3}
    /\ status.total = 3 /\ status.filled = 2 /\ status.remaining = 1
    /\ status.completion_rate.num * 3 = 2 * status.completion_rate.den
    /\ last.op = "insert_content_at_point"

\* C18: every run of process_document ends: it returns, or an exception ends
\* it; no external call made for a point keeps the run waiting for ever
C18_RunTerminates == <>(pc \in {"done", "saved", "raised"})

\* a text with nothing to make a block of: every line is blank or a heading
NothingToSay(text) ==
    \A i \in 1..Len(Split(text)) :
        LET line == Split(text)[i]
        IN  \/ ~StripNonEmpty(line)
            \/ Strip(line)[1] = "#"

\* C19: when the handling of a point ends, a generated text that is empty,
\* all whitespace or made of headings only has given the empty content list;
\* and with an empty content list nothing is inserted, the document and the
\* points are as before, the point is not filled, the failure is printed and
\* the loop goes to the next point without an exception
C19_EmptyText ==
    [][(pc \in {"generate", "parse"}) /\ pc' \in {"loop", "raised"} =>
          /\ NothingToSay(reply'.text) => generated' = << >>
          /\ generated' = << >> =>
                /\ body' = body
                /\ points' = points
                /\ ~points'[cur + 1].filled
                /\ last' = last
                /\ pc' = "loop"
                /\ cur' = cur + 1
                /\ FailedToGenerate \in console']_vars

\* C19, its case: the text for the only point was a heading and nothing
\* else; the parser was run on it and the point is left as it was located
C19_Witness ==
    /\ pc = "loop"
    /\ cur = 1
    /\ reply.kind = "generate"
    /\ reply.how = "returned"
    /\ reply.text = Heading
    /\ generated = << >>
    /\ points = <<LocatedPoint(Document0, 0, "d")>>
    /\ body = Document0
    /\ last = NoCall
    /\ console = {FailedToGenerate}

\* the code blocks of a generated text, in the order of the text
CodeBlocksOf(text) == ReplaceCodeBlocks(text, 1, << >>, << >>).code_blocks

\* the positions of the items of one type in a content list, and the n-th
\* of them
PositionsOf(content, type) ==
    {p \in 1..Len(content) : content[p].type = type}

NthPosition(content, type, n) ==
    CHOOSE p \in PositionsOf(content, type) :
        Cardinality({q \in PositionsOf(content, type) : q <= p}) = n

\* the parser asks a collaborator about a block: the chart renderer, or the
\* executor
AsksAbout(block, description) ==
    \/ IsChartCode(block)
    \/ can_execute_language(block.language) /\ HasKeyword(description)

\* what the collaborator returned for the n-th code block of the text
OutcomeFor(blocks, n, description) ==
    outcomes[Cardinality({m \in 1..n : AsksAbout(blocks[m], description)})]

\* C20: once a generated text is parsed, its code blocks are in the content
\* one time each and in their order; for a Python block that mentions plt. or
\* matplotlib the chart renderer was asked, and the item right before the
\* block is the picture at the returned path, 5 inches wide, when the
\* renderer succeeded and no picture when it failed; and there is no other
\* picture in the content
C20_ChartEnrichment ==
    pc \in {"loop", "raised"} /\ reply.kind = "generate" /\ reply.text # << >> =>
       LET blocks == CodeBlocksOf(reply.text)
           description ==
               points[IF pc = "loop" THEN cur ELSE cur + 1].description
           charts == {n \in 1..Len(blocks) : IsChartCode(blocks[n])}
           drawn == {n \in charts : OutcomeFor(blocks, n, description).ok}
       IN  /\ Cardinality(PositionsOf(generated, "code")) = Len(blocks)
           /\ Len(outcomes)
                 = Cardinality({n \in 1..Len(blocks) :
                                   AsksAbout(blocks[n], description)})
           /\ \A n \in 1..Len(blocks) :
                 LET p == NthPosition(generated, "code", n)
                 IN  /\ generated[p]
                           = CodeBlock(blocks[n].code, blocks[n].language)
                     /\ n \in drawn =>
                           /\ p > 1
                           /\ generated[p - 1]
                                 = ImageBlock(OutcomeFor(blocks, n,
                                                         description).path)
                           /\ generated[p - 1].width = 5
                     /\ n \notin drawn =>
                           p = 1 \/ generated[p - 1].type # "image"
           /\ Cardinality(PositionsOf(generated, "image")) = Cardinality(drawn)

\* C20, its case: a text of two plots; the renderer drew the first and
\* failed on the second, and the content is the picture, the first code
\* block and the second code block
C20_Witness ==
    /\ pc = "loop"
    /\ reply.text = JoinLines(<<ChartFence, BareFence>>)
    /\ outcomes = <<Outcome(TRUE, ChartPath(1), << >>),
                    Outcome(FALSE, "", << >>)>>
    /\ generated = <<ImageBlock(ChartPath(1)),
                     CodeBlock(Plt \o <<"x", NL>>, Python),
                     CodeBlock(Plt \o <<"x", NL>>, Python)>>
    /\ chart_counter = 2

\* a text block that reports an execution
IsResult(item) ==
    /\ item.type = "text"
    /\ item.data # << >>
    /\ item.data[1] \in {ResultHeader, FailureHeader}

\* the point the generated text was for
OwningPoint == points[IF pc = "loop" THEN cur ELSE cur + 1]

\* C21 as stated: once a generated text is parsed, every code block that is
\* not a plot is in the content; when the description of the point has a
\* keyword the item right after the block reports its execution, and when it
\* has none nothing was executed and no report follows the block
C21_ExecutionEnrichment ==
    pc \in {"loop", "raised"} /\ reply.kind = "generate" /\ reply.text # << >> =>
       LET blocks == CodeBlocksOf(reply.text)
           description == OwningPoint.description
       IN  /\ Cardinality(PositionsOf(generated, "code")) = Len(blocks)
           /\ \A n \in 1..Len(blocks) :
                 LET p == NthPosition(generated, "code", n)
                 IN  ~IsChartCode(blocks[n]) =>
                        /\ generated[p]
                              = CodeBlock(blocks[n].code, blocks[n].language)
                        /\ IF HasKeyword(description)
                           THEN p < Len(generated) /\ IsResult(generated[p + 1])
                           ELSE p = Len(generated) \/ ~IsResult(generated[p + 1])
           /\ ~HasKeyword(description) =>
                 Len(outcomes)
                    = Cardinality({n \in 1..Len(blocks) : IsChartCode(blocks[n])})

\* C21 as amended: the same, with the execution and its report only for a
\* block whose language the executor can run; the report is the header of
\* success or of failure, a newline, and the output as the executor gave it
C21_ExecutionWhenExecutable ==
    pc \in {"loop", "raised"} /\ reply.kind = "generate" /\ reply.text # << >> =>
       LET blocks == CodeBlocksOf(reply.text)
           description == OwningPoint.description
       IN  /\ Cardinality(PositionsOf(generated, "code")) = Len(blocks)
           /\ Len(outcomes)
                 = Cardinality({n \in 1..Len(blocks) :
                                   AsksAbout(blocks[n], description)})
           /\ \A n \in 1..Len(blocks) :
                 LET p == NthPosition(generated, "code", n)
                     run == OutcomeFor(blocks, n, description)
                 IN  ~IsChartCode(blocks[n]) =>
                        /\ generated[p]
                              = CodeBlock(blocks[n].code, blocks[n].language)
                        /\ IF /\ HasKeyword(description)
                              /\ can_execute_language(blocks[n].language)
                           THEN /\ p < Len(generated)
                                /\ generated[p + 1]
                                      = TextBlock(<<IF run.ok THEN ResultHeader
                                                    ELSE FailureHeader, NL>>
                                                  \o run.output)
                           ELSE p = Len(generated) \/ ~IsResult(generated[p + 1])
           /\ Cardinality({p \in 1..Len(generated) : IsResult(generated[p])})
                 = Cardinality({n \in 1..Len(blocks) :
                                   /\ ~IsChartCode(blocks[n])
                                   /\ AsksAbout(blocks[n], description)})

\* C21, its case: a point that asks for code, a text of a Python block and a
\* C block; the first ran and the second was cut off after 30 s
C21_Witness ==
    /\ pc = "loop"
    /\ OwningPoint.description = "code"
    /\ reply.text = JoinLines(<<CodeFence, CFence>>)
    /\ outcomes = <<Outcome(TRUE, "", <<"o">>),
                    Outcome(FALSE, "", <<TimedOut>>)>>
    /\ generated = <<CodeBlock(<<"a", NL>>, Python),
                     TextBlock(<<ResultHeader, NL, "o">>),
                     CodeBlock(<<"a", NL>>, <<"c">>),
                     TextBlock(<<FailureHeader, NL, TimedOut>>)>>

\* a line of a pipe-delimited table
IsTableLine(line) == StripNonEmpty(line) /\ Strip(line)[1] = "|"

\* the pieces of a text between the pipes
RECURSIVE SplitPipe(_)
SplitPipe(s) ==
    IF \A j \in 1..Len(s) : s[j] # "|" THEN <<s>>
    ELSE LET j == CHOOSE x \in 1..Len(s) :
                      s[x] = "|" /\ \A y \in 1..(x - 1) : s[y] # "|"
         IN  <<SubSeq(s, 1, j - 1)>> \o SplitPipe(SubSeq(s, j + 1, Len(s)))

\* the cells of a table line: what stands between its outer pipes, split at
\* the inner ones and stripped
Cells(line) ==
    LET s == Strip(line)
        pieces == SplitPipe(SubSeq(s, 2, Len(s) - 1))
    IN  [c \in 1..Len(pieces) |-> Strip(pieces[c])]

\* the lines where a table of the text begins, and the last line of the
\* table that begins at line j
TableStarts(lines) ==
    {j \in 1..Len(lines) :
        IsTableLine(lines[j]) /\ (j = 1 \/ ~IsTableLine(lines[j - 1]))}

TableEnd(lines, j) ==
    CHOOSE e \in j..Len(lines) :
        /\ \A i \in j..e : IsTableLine(lines[i])
        /\ e = Len(lines) \/ ~IsTableLine(lines[e + 1])

\* C22: once a generated text is parsed, each pipe-delimited table of the
\* text is one table item of the content, in the order of the text, with the
\* cells of its first line as headers and the cells of the lines after the
\* separator as rows; and no text item holds a line of a table
C22_MarkdownTable ==
    pc \in {"loop", "raised"} /\ reply.kind = "generate" /\ reply.text # << >> =>
       LET lines == Split(reply.text)
           starts == TableStarts(lines)
       IN  /\ Cardinality(PositionsOf(generated, "table")) = Cardinality(starts)
           /\ \A j \in starts :
                 LET k == Cardinality({i \in starts : i <= j})
                     e == TableEnd(lines, j)
                     table == generated[NthPosition(generated, "table", k)]
                 IN  /\ table.headers = Cells(lines[j])
                     /\ table.rows = [r \in 1..(e - j - 1) |->
                                         Cells(lines[j + 1 + r])]
           /\ \A p \in PositionsOf(generated, "text") :
                 \A q \in 1..Len(generated[p].data) :
                     generated[p].data[q] # "|"

\* the tables of a body that the handler inserted
NewTables(b) == {j \in 1..Len(b) : b[j].kind = "tbl" /\ b[j].id = 0}

\* C23: insert_table with a header row of width w, at an index of the
\* document, returns 1 and does not raise, whatever the widths of the data
\* rows; the document has one table more, of len(rows) + 1 rows of w cells:
\* the headers, then each data row with its first w cells, "" where the row
\* has no cell
C23_TableRendering ==
    /\ last.op = "insert_table"
    /\ last.content[1].headers # << >>
    /\ last.para_index >= 0
    =>
       LET headers == last.content[1].headers
           data == last.content[1].rows
           w == Len(headers)
       IN  /\ last.ok
           /\ last.n = 1
           /\ Len(body) = Len(last.body) + 1
           /\ Cardinality(NewTables(body)) = 1
           /\ \A j \in NewTables(body) :
                 /\ Len(body[j].cells) = Len(data) + 1
                 /\ body[j].cells[1] = headers
                 /\ \A r \in 1..Len(data) :
                       body[j].cells[r + 1]
                          = [c \in 1..w |-> IF c <= Len(data[r])
                                            THEN data[r][c] ELSE ""]

\* C24: whenever process_document starts on a document, nothing of an earlier
\* document is there: no handler, document or point is held yet, and the
\* state of the collaborators that decides what the run will produce, the
\* chart counter and the files of the workspace, is as it was when the first
\* document started
C24_NoSharedState ==
    pc = "start" =>
       /\ body = << >>
       /\ points = << >>
       /\ located = << >>
       /\ last = NoCall
       /\ chart_counter = 0
       /\ disk.workspace = {}

\* the placeholder tokens
Placeholders == {Placeholder(n) : n \in 0..(MaxParts + 1)}

\* a sequence of kinds with each run of "text" made one "text"
RECURSIVE Squeeze(_)
Squeeze(kinds) ==
    IF Len(kinds) < 2 THEN kinds
    ELSE IF kinds[1] = "text" /\ kinds[2] = "text" THEN Squeeze(Tail(kinds))
    ELSE <<kinds[1]>> \o Squeeze(Tail(kinds))

\* the code spans and the stretches of text between them, in the order of
\* the text; the lines that are headings are no text of the content
KindsOfText(text) ==
    LET marked == ReplaceCodeBlocks(text, 1, << >>, << >>).text
        IsNoHeading(line) == ~StripNonEmpty(line) \/ Strip(line)[1] # "#"
        IsSolid(c) == c \notin Whitespace
        solid == SelectSeq(JoinSpace(SelectSeq(Split(marked), IsNoHeading)),
                           IsSolid)
    IN  Squeeze([q \in 1..Len(solid) |->
                    IF solid[q] \in Placeholders THEN "code" ELSE "text"])

\* the code blocks and the stretches of text blocks of a content list, the
\* pictures and the reports of executions left out
KindsOfContent(content) ==
    LET IsOwn(item) == item.type # "image" /\ ~IsResult(item)
        own == SelectSeq(content, IsOwn)
    IN  Squeeze([q \in 1..Len(own) |-> own[q].type])

\* C25: once a generated text is parsed, each code span of the text is one
\* code item with its language and body, in the order of the spans; code and
\* text follow each other in the content as they do in the text; and no text
\* item holds a placeholder token
C25_CodeSpansPreserved ==
    pc \in {"loop", "raised"} /\ reply.kind = "generate" /\ reply.text # << >> =>
       LET blocks == CodeBlocksOf(reply.text)
       IN  /\ Cardinality(PositionsOf(generated, "code")) = Len(blocks)
           /\ \A n \in 1..Len(blocks) :
                 generated[NthPosition(generated, "code", n)]
                    = CodeBlock(blocks[n].code, blocks[n].language)
           /\ KindsOfContent(generated) = KindsOfText(reply.text)
           /\ \A p \in PositionsOf(generated, "text") :
                 \A q \in 1..Len(generated[p].data) :
                     generated[p].data[q] \notin Placeholders

\* the language tags of the code spans of a text as they are written, the
\* empty tag for a fence that names no language
RECURSIVE RawTags(_, _)
RawTags(s, i) ==
    IF i > Len(s) THEN << >>
    ELSE LET m == MatchCode(s, i)
         IN  IF m.ok
             THEN <<SubSeq(s, i + 3, i + 2 + Run(s, i + 3, WordChars))>>
                     \o RawTags(s, m.next)
             ELSE RawTags(s, i + 1)

\* the languages the program knows, and the generic one
Recognized == {<<"c">>, <<"c", "p", "p">>, Python, <<"j", "a", "v", "a">>}
Plain == <<"p", "l", "a", "i", "n">>

\* C26: once a generated text is parsed, a code span whose tag is missing or
\* names no known language is a code item of the language "plain" with the
\* body as written; no picture stands before it and no report of an
\* execution after it, and no collaborator was asked about it
C26_PlainLanguage ==
    pc \in {"loop", "raised"} /\ reply.kind = "generate" /\ reply.text # << >> =>
       LET blocks == CodeBlocksOf(reply.text)
           tags == RawTags(reply.text, 1)
           description == OwningPoint.description
           known == {n \in 1..Len(blocks) : Lower(tags[n]) \in Recognized}
       IN  /\ Cardinality(PositionsOf(generated, "code")) = Len(blocks)
           /\ Len(outcomes)
                 = Cardinality({n \in known : AsksAbout(blocks[n], description)})
           /\ \A n \in (1..Len(blocks)) \ known :
                 LET p == NthPosition(generated, "code", n)
                 IN  /\ generated[p] = CodeBlock(blocks[n].code, Plain)
                     /\ p = 1 \/ generated[p - 1].type # "image"
                     /\ p = Len(generated) \/ ~IsResult(generated[p + 1])

\* C27: every point the locator has accepted has a para_index that is an
\* index of a paragraph of the document as it was at detection: an integer
\* from 0 to the number of paragraphs less one
C27_IndexInRange ==
    pc # "detect" =>
       \A j \in 1..Len(points) :
          /\ points[j].para_index \in Int
          /\ 0 <= points[j].para_index
          /\ points[j].para_index < Len(Paragraphs(Document0))

\* the points insert_content_at_point leaves where they are: the one being
\* filled, the ones filled before the call, and the ones anchored at or
\* before the filled point's para_index
Framed(j) ==
    \/ j = last.k
    \/ last.points[j].filled
    \/ last.points[j].para_index <= last.points[last.k].para_index

\* C28: insert_content_at_point changes the para_index neither of the point
\* it fills, nor of a point filled before, nor of a point whose para_index
\* is at most the filled point's (another unfilled point on the same anchor
\* among them), and it changes no point's description, context_before or
\* context_after
C28_RebasingFrame ==
    last.op = "insert_content_at_point" =>
        /\ Len(points) = Len(last.points)
        /\ \A j \in 1..Len(points) :
              /\ Framed(j) => points[j].para_index = last.points[j].para_index
              /\ points[j].description = last.points[j].description
              /\ points[j].context_before = last.points[j].context_before
              /\ points[j].context_after = last.points[j].context_after

\* C28, its case: a fill that inserted something, with an unfilled point on
\* the same anchor and a point filled earlier at a larger anchor, both
\* where they were, and a context that is not empty
C28_Witness ==
    /\ FillDone
    /\ last.n > 0
    /\ \E i, j \in 1..Len(points) :
          /\ i # last.k /\ j # last.k
          /\ ~last.points[i].filled
          /\ last.points[i].para_index = last.points[last.k].para_index
          /\ points[i].para_index = last.points[i].para_index
          /\ last.points[j].filled
          /\ last.points[j].para_index > last.points[last.k].para_index
          /\ points[j].para_index = last.points[j].para_index
          /\ points[j].context_before # << >>

\* C29: a run of process_document saves the document at most once, and what
\* it saves is the document as the run leaves it, after the last located
\* point was processed, whether or not every point was filled; a run that
\* returns because the environment check failed, the document did not load
\* or no point was located has saved nothing and changed nothing of the
\* document
C29_SaveOrdering ==
    /\ Len(disk.saved) <= 1
    /\ disk.saved # << >> =>
          /\ pc = "saved"
          /\ cur = Len(points)
          /\ disk.saved = <<body>>
    /\ pc = "saved" => Len(disk.saved) = 1 /\ points # << >>
    /\ pc = "done" =>
          /\ disk.saved = << >>
          /\ points = << >>
          /\ \/ result = "False" /\ body = << >>
             \/ result = "True" /\ body = Document0

\* C29, its case: the second document of an agent saved with content
\* inserted at one point and another point left unfilled
C29_Witness ==
    /\ pc = "saved"
    /\ document = 2
    /\ result = "False"
    /\ disk.saved = <<body>>
    /\ body # Document0
    /\ \E j \in 1..Len(points) : points[j].filled

\* C30: a path returned by parse_chart_from_code names a file that the very
\* call wrote: a file that was in the workspace before the call is not
\* returned by a render that wrote nothing to that path
C30_ChartFreshness ==
    (last.op = "parse_chart_from_code" /\ last.path # "") => last.wrote

====
